---------------------------- MODULE Spec2Model ----------------------------
(***************************************************************************)
(* Model of pdf-memo-mcp: the path sandbox resolver (core/paths.py and the *)
(* legacy copy in main.py), the page range parser (core/page_range.py) and *)
(* the highlight geometry of backends/pdfplumber_backend.py.               *)
(*                                                                         *)
(* A Python str is modelled as a sequence of one-character strings, so     *)
(* that startswith, split, lower and the substring test `in` are computed  *)
(* character by character as the code computes them.  POSIX path rules     *)
(* (posixpath, pathlib.PurePosixPath) are modelled.                        *)
(***************************************************************************)
EXTENDS Integers, Sequences, FiniteSets, TLC

VARIABLES
    fs,                 \* the filesystem: path string -> node
    locked,             \* directories without search permission
    phase,              \* "startup" before setup_search_directories, then "serving"
    SEARCH_DIRECTORIES, \* paths.SEARCH_DIRECTORIES
    MAX_FILE_SIZE,      \* paths.MAX_FILE_SIZE
    pc,                 \* "idle" or "returned": one request at a time
    last,               \* the request just answered: operation, input, outcome
    prev,               \* a failed request answered earlier (SpecLeak only)
    pr,                 \* page range subsystem: the call of parse_page_range
    hl,                 \* highlight subsystem: the call of extract_highlights_with_context
    tx,                 \* text subsystem: the call of a function of core/bbox.py
    an,                 \* annotation subsystem: the call of extract_annotations or of a tool
    handles,            \* the file handles that are open
    tools_MAX_FILE_SIZE, \* the name MAX_FILE_SIZE of tools/mcp_tools.py, once imported
    mn                  \* main.py: the call of one of its functions

vars == <<fs, locked, phase, SEARCH_DIRECTORIES, MAX_FILE_SIZE, pc, last, prev, pr, hl, tx,
          an, handles, tools_MAX_FILE_SIZE, mn>>

(***************************************************************************)
(* Bounds of the model.                                                    *)
(***************************************************************************)
MaxSize == 2        \* --max-file-size ranges over 1..MaxSize; files have 1..MaxSize+1 bytes
LinkFuel == 2       \* symlinks followed while resolving one path (no link of the model loops)

(***************************************************************************)
(* Python str operations.                                                  *)
(***************************************************************************)
StartsWith(s, p) == Len(p) <= Len(s) /\ SubSeq(s, 1, Len(p)) = p

EndsWith(s, p) == Len(p) <= Len(s) /\ SubSeq(s, Len(s) - Len(p) + 1, Len(s)) = p

\* `sub in s` for two strings
Contains(s, sub) ==
    \E i \in 0..(Len(s) - Len(sub)) : SubSeq(s, i + 1, i + Len(sub)) = sub

LowerChar(c) ==
    CASE c = "K" -> "k"
      [] c = "P" -> "p"
      [] c = "D" -> "d"
      [] c = "F" -> "f"
      [] c = "X" -> "x"
      [] c = "L" -> "l"
      [] c = "A" -> "a"
      [] c = "S" -> "s"
      [] c = "T" -> "t"
      [] c = "I" -> "i"
      [] c = "R" -> "r"
      [] OTHER -> c

Lower(s) == [i \in 1..Len(s) |-> LowerChar(s[i])]

\* index of the first occurrence of character c in s at or after position i, 0 if none
RECURSIVE FindChar(_, _, _)
FindChar(s, c, i) ==
    IF i > Len(s) THEN 0
    ELSE IF s[i] = c THEN i
    ELSE FindChar(s, c, i + 1)

\* index of the last occurrence of character c in s, 0 if none (str.rfind + 1)
RECURSIVE RFindChar(_, _, _)
RFindChar(s, c, i) ==
    IF i < 1 THEN 0
    ELSE IF s[i] = c THEN i
    ELSE RFindChar(s, c, i - 1)

\* s.split(c): the segments between the occurrences of c, empty ones included
RECURSIVE SplitOn(_, _)
SplitOn(s, c) ==
    LET i == FindChar(s, c, 1) IN
    IF i = 0 THEN <<s>>
    ELSE <<SubSeq(s, 1, i - 1)>> \o SplitOn(SubSeq(s, i + 1, Len(s)), c)

\* c.join(parts)
RECURSIVE JoinWith(_, _)
JoinWith(parts, c) ==
    IF Len(parts) = 0 THEN <<>>
    ELSE IF Len(parts) = 1 THEN parts[1]
    ELSE parts[1] \o <<c>> \o JoinWith(Tail(parts), c)

\* s.rstrip(c)
RECURSIVE RStrip(_, _)
RStrip(s, c) ==
    IF Len(s) > 0 /\ s[Len(s)] = c THEN RStrip(SubSeq(s, 1, Len(s) - 1), c) ELSE s

InSeq(x, seq) == \E i \in 1..Len(seq) : seq[i] = x

(***************************************************************************)
(* posixpath                                                               *)
(***************************************************************************)
SEP == "/"
DOT == <<".">>
DOTDOT == <<".", ".">>

isabs(s) == StartsWith(s, <<SEP>>)

\* os.path.join(a, b)
pathjoin(a, b) ==
    IF isabs(b) THEN b
    ELSE IF a = <<>> \/ EndsWith(a, <<SEP>>) THEN a \o b
    ELSE a \o <<SEP>> \o b

\* the component loop of posixpath.normpath
RECURSIVE NormComps(_, _, _)
NormComps(comps, new, initial) ==
    IF Len(comps) = 0 THEN new
    ELSE LET c == Head(comps)
             rest == Tail(comps)
         IN IF c = <<>> \/ c = DOT THEN NormComps(rest, new, initial)
            ELSE IF c # DOTDOT
                    \/ (initial = 0 /\ Len(new) = 0)
                    \/ (Len(new) > 0 /\ new[Len(new)] = DOTDOT)
                 THEN NormComps(rest, Append(new, c), initial)
            ELSE IF Len(new) > 0
                 THEN NormComps(rest, SubSeq(new, 1, Len(new) - 1), initial)
            ELSE NormComps(rest, new, initial)

\* posixpath.normpath
normpath(s) ==
    IF s = <<>> THEN DOT
    ELSE LET Joined(initial) ==
                 LET path == [i \in 1..initial |-> SEP]
                                 \o JoinWith(NormComps(SplitOn(s, SEP), <<>>, initial), SEP)
                 IN IF path = <<>> THEN DOT ELSE path
         IN Joined(IF ~isabs(s) THEN 0
                   ELSE IF StartsWith(s, <<SEP, SEP>>) /\ ~StartsWith(s, <<SEP, SEP, SEP>>)
                        THEN 2 ELSE 1)

\* posixpath.split: (head, tail)
pathsplit(p) ==
    LET i == RFindChar(p, SEP, Len(p))
        head == SubSeq(p, 1, i)
        tail == SubSeq(p, i + 1, Len(p))
        allSep == \A j \in 1..Len(head) : head[j] = SEP
    IN <<IF head # <<>> /\ ~allSep THEN RStrip(head, SEP) ELSE head, tail>>

basename(p) == SubSeq(p, RFindChar(p, SEP, Len(p)) + 1, Len(p))

(***************************************************************************)
(* The filesystem.  Directories are fixed; the files and symlinks of two   *)
(* slots change.  A node is [kind, size, target].                          *)
(***************************************************************************)
Absent == [kind |-> "absent", size |-> 0, target |-> <<>>]
Dir == [kind |-> "dir", size |-> 0, target |-> <<>>]
File(n) == [kind |-> "file", size |-> n, target |-> <<>>]
Link(t) == [kind |-> "link", size |-> 0, target |-> t]
Denied == [kind |-> "eacces", size |-> 0, target |-> <<>>]

ROOT == <<"/">>
D_a == <<"/", "a">>
D_b == <<"/", "b">>
D_ab == <<"/", "a", "b">>            \* a sibling whose name starts with the name of /a
D_o == <<"/", "o">>
D_w == <<"/", "w">>
PDF == <<".", "p", "d", "f">>
N_k == <<"k">> \o PDF                 \* k.pdf
N_tk == <<"~", "k">> \o PDF           \* ~k.pdf
N_KP == <<"K", ".", "P", "D", "F">>   \* K.PDF
N_t == <<"t", ".", "t", "x", "t">>    \* t.txt
N_s == <<"s">> \o PDF                 \* s.pdf

P_ak == D_a \o <<SEP>> \o N_k
P_atk == D_a \o <<SEP>> \o N_tk
P_bk == D_b \o <<SEP>> \o N_k
P_aKP == D_a \o <<SEP>> \o N_KP
P_at == D_a \o <<SEP>> \o N_t
P_abk == D_ab \o <<SEP>> \o N_k
P_os == D_o \o <<SEP>> \o N_s

\* a chain of directories six levels deep below the working directory, with
\* s.pdf one, five and six levels down
D_w1 == D_w \o <<SEP, "1">>
D_w2 == D_w1 \o <<SEP, "2">>
D_w3 == D_w2 \o <<SEP, "3">>
D_w4 == D_w3 \o <<SEP, "4">>
D_w5 == D_w4 \o <<SEP, "5">>
D_w6 == D_w5 \o <<SEP, "6">>
P_w1s == D_w1 \o <<SEP>> \o N_s
P_w5s == D_w5 \o <<SEP>> \o N_s
P_w6s == D_w6 \o <<SEP>> \o N_s

FixedDirs == {ROOT, D_a, D_b, D_ab, D_o, D_w, D_w1, D_w2, D_w3, D_w4, D_w5, D_w6}
FixedFiles == {P_aKP, P_at, P_abk, P_os, P_bk, P_w1s, P_w5s, P_w6s}
Slots == {P_ak, P_atk}
LockableDirs == {D_a}

CWD == D_w          \* os.getcwd()
HOME == D_b         \* $HOME

FileSizes == 1..(MaxSize + 1)

\* what a slot may hold
SlotContents(p) ==
    IF p = P_ak
    THEN {Absent, Dir, Link(P_os), Link(P_at)} \cup {File(n) : n \in FileSizes}
    ELSE {Absent, File(1)}

\* the node a canonical absolute path names (no permission check)
Node(p) ==
    IF p \in Slots THEN fs[p]
    ELSE IF p \in FixedDirs THEN Dir
    ELSE IF p \in FixedFiles THEN File(1)
    ELSE Absent

\* a path below a directory that cannot be searched
Unsearchable(p) == \E d \in locked : StartsWith(p, d \o <<SEP>>)

(***************************************************************************)
(* posixpath with the filesystem                                           *)
(***************************************************************************)
abspath(s) == normpath(IF isabs(s) THEN s ELSE pathjoin(CWD, s))

\* os.lstat of a path whose directory part holds no symlink; a relative
\* path is taken from the working directory
lstat(p) ==
    LET At(q) == IF Unsearchable(q) THEN Denied ELSE Node(q)
    IN At(IF isabs(p) THEN p ELSE abspath(p))

\* os.path.expanduser; no user named by ~name has a passwd entry
expanduser(s) ==
    IF ~StartsWith(s, <<"~">>) THEN s
    ELSE LET j == FindChar(s, SEP, 2)
             i == IF j = 0 THEN Len(s) + 1 ELSE j
         IN IF i # 2 THEN s
            ELSE LET r == RStrip(HOME, SEP) \o SubSeq(s, i, Len(s))
                 IN IF r = <<>> THEN <<SEP>> ELSE r

\* the component loop of posixpath._joinrealpath, strict=False: an lstat that
\* fails counts as "not a link"; the target of a link is resolved from the
\* directory reached so far (from "/" when it is absolute) and the loop goes on
\* with the remaining components, which is one walk over target/remainder;
\* fuel stops a chain of links
RECURSIVE WalkReal(_, _, _)
WalkReal(path, rest, fuel) ==
    IF rest = <<>> THEN path
    ELSE LET \* newpath = join(path, name), st = os.lstat(newpath)
             Component(name, rem, newpath, st) ==
                 IF name = <<>> \/ name = DOT THEN WalkReal(path, rem, fuel)
                 ELSE IF name = DOTDOT
                      THEN IF path = <<>> THEN WalkReal(DOTDOT, rem, fuel)
                           ELSE LET sp == pathsplit(path)
                                IN WalkReal(IF sp[2] = DOTDOT
                                            THEN pathjoin(pathjoin(sp[1], DOTDOT), DOTDOT)
                                            ELSE sp[1], rem, fuel)
                 ELSE IF st.kind # "link" THEN WalkReal(newpath, rem, fuel)
                 ELSE IF fuel = 0 THEN pathjoin(newpath, rem)
                 ELSE LET target == st.target \o (IF rem = <<>> THEN <<>> ELSE <<SEP>> \o rem)
                      IN WalkReal(IF isabs(target) THEN <<SEP>> ELSE path,
                                  IF isabs(target) THEN Tail(target) ELSE target,
                                  fuel - 1)
             \* name, _, rest = rest.partition(sep)
             Partition(name, rem) ==
                 Component(name, rem, pathjoin(path, name), lstat(pathjoin(path, name)))
             At(i) == Partition(IF i = 0 THEN rest ELSE SubSeq(rest, 1, i - 1),
                                IF i = 0 THEN <<>> ELSE SubSeq(rest, i + 1, Len(rest)))
         IN At(FindChar(rest, SEP, 1))

\* posixpath._joinrealpath(path, rest)
JoinReal(path, rest, fuel) ==
    IF isabs(rest) THEN WalkReal(<<SEP>>, Tail(rest), fuel)
    ELSE WalkReal(path, rest, fuel)

\* os.path.realpath
realpath(s) == abspath(JoinReal(<<>>, s, LinkFuel))

(***************************************************************************)
(* pathlib.PurePosixPath                                                   *)
(***************************************************************************)
\* the root of a parsed path: "/", "//" (exactly two slashes) or none
PathRoot(s) ==
    IF ~isabs(s) THEN <<>>
    ELSE IF StartsWith(s, <<SEP, SEP>>) /\ ~StartsWith(s, <<SEP, SEP, SEP>>)
         THEN <<SEP, SEP>> ELSE <<SEP>>

NotEmptyNorDot(c) == c # <<>> /\ c # DOT

\* the components after the root: empty ones and "." are dropped, ".." is kept
PathNames(s) == SelectSeq(SplitOn(s, SEP), NotEmptyNorDot)

\* Path(s).parts
PathParts(s) ==
    (IF PathRoot(s) = <<>> THEN <<>> ELSE <<PathRoot(s)>>) \o PathNames(s)

\* str(Path(s))
PathStr(s) ==
    LET r == PathRoot(s) \o JoinWith(PathNames(s), SEP)
    IN IF r = <<>> THEN DOT ELSE r

\* str(Path(d) / name)
PathDiv(d, name) ==
    IF isabs(name) THEN PathStr(name) ELSE PathStr(d \o <<SEP>> \o name)

\* Path(s).name
PathName(s) ==
    LET ns == PathNames(s) IN IF Len(ns) = 0 THEN <<>> ELSE ns[Len(ns)]

\* Path(s).suffix
PathSuffix(s) ==
    LET name == PathName(s)
        i == RFindChar(name, ".", Len(name))
    IN IF 1 < i /\ i < Len(name) THEN SubSeq(name, i, Len(name)) ELSE <<>>

\* Path.stat() of a canonical path: the node, or Denied (PermissionError)
stat(p) == lstat(p)

\* os.stat_result.st_size
st_size(st) == st.size

(***************************************************************************)
(* core/paths.py: validate_and_resolve_path, find_file                     *)
(***************************************************************************)
None == [kind |-> "none", path |-> <<>>]
Raised == [kind |-> "raise", path |-> <<>>]
Some(p) == [kind |-> "path", path |-> p]

ALLOWED_EXTENSIONS == {PDF}

\* _is_within(base, target)
_is_within(base, target) ==
    LET Within(b, t) == StartsWith(t, b) \/ t = SubSeq(b, 1, Len(b) - 1)
    IN Within(pathjoin(realpath(base), <<>>), realpath(target))

\* Path.is_file(): TRUE, FALSE, or "raise" for an error other than ENOENT/ENOTDIR
is_file(p) ==
    LET st == stat(p) IN
    IF st.kind = "eacces" THEN "raise"
    ELSE IF st.kind = "file" THEN "yes" ELSE "no"

\* the checks of validate_and_resolve_path on the file itself
FileChecks(real_path) ==
    LET Checked(f) ==
            IF f = "raise" THEN Raised
            ELSE IF f = "no" THEN None
            ELSE IF Lower(PathSuffix(real_path)) \notin ALLOWED_EXTENSIONS THEN None
            ELSE IF st_size(stat(real_path)) > MAX_FILE_SIZE THEN None
            ELSE Some(PathStr(real_path))
    IN Checked(is_file(real_path))

\* abs_path of validate_and_resolve_path
AbsPath(file_path) ==
    IF StartsWith(file_path, <<"~">>) THEN expanduser(file_path) ELSE abspath(file_path)

\* validate_and_resolve_path without the test for a ".." segment
\* is_safe: real_path is within one of the allowed directories
IsSafe(real_path) ==
    \E i \in 1..Len(SEARCH_DIRECTORIES) : _is_within(SEARCH_DIRECTORIES[i], real_path)

\* the checks on the resolved path, in the order of the code
Resolved(file_path, real_path) ==
    IF ~IsSafe(real_path) \/ InSeq(DOTDOT, PathParts(file_path)) THEN None
    ELSE FileChecks(real_path)

\* the try block without the test for ".." in the parts of the input
ValidateTry_NoDotDot(file_path) ==
    IF ~IsSafe(realpath(AbsPath(file_path))) THEN None
    ELSE FileChecks(realpath(AbsPath(file_path)))

\* the body of the try block of validate_and_resolve_path
ValidateTry(file_path) == Resolved(file_path, realpath(AbsPath(file_path)))

\* no except clause: the exception leaves the function
CatchNone_Propagate(r) == r

\* except Exception: return None
CatchNone(r) == IF r.kind = "raise" THEN None ELSE r

validate_and_resolve_path(file_path) == CatchNone(ValidateTry(file_path))

\* the names dir_path.glob("*.pdf") yields, in no particular order; a directory
\* that cannot be read yields nothing
GlobPdf(d) ==
    IF Unsearchable(d \o <<SEP>>) \/ Node(d).kind # "dir" THEN {}
    ELSE {p \in Slots \cup FixedFiles \cup FixedDirs :
            /\ pathsplit(p)[1] = d
            /\ Node(p).kind # "absent"
            /\ EndsWith(basename(p), PDF)}

\* the fuzzy pass over one directory: what validate_and_resolve_path gives for
\* the entries whose name contains file_name
FuzzyTried(d, file_name) ==
    {validate_and_resolve_path(PathStr(p)) :
        p \in {q \in GlobPdf(d) : Contains(Lower(basename(q)), Lower(file_name))}}

\* the loop of find_file over SEARCH_DIRECTORIES from index i: the set of
\* values it can return (glob yields a directory's entries in any order).  An
\* exception inside the loop body is logged and the loop continues with the
\* next directory.
RECURSIVE SearchFrom(_, _)

\* the fuzzy pass has tried the entries of directory i
SearchFuzzy(i, file_name, tried) ==
    {r \in tried : r.kind = "path"}
        \cup (IF {r \in tried : r.kind = "path"} = {} \/ Raised \in tried
              THEN SearchFrom(i + 1, file_name) ELSE {})

\* the direct candidate of directory i has been validated
SearchDirect(i, file_name, direct) ==
    IF direct.kind = "raise" THEN SearchFrom(i + 1, file_name)
    ELSE IF direct.kind = "path" THEN {direct}
    ELSE SearchFuzzy(i, file_name, FuzzyTried(SEARCH_DIRECTORIES[i], file_name))

SearchFrom(i, file_name) ==
    IF i > Len(SEARCH_DIRECTORIES) THEN {None}
    ELSE SearchDirect(i, file_name,
                      validate_and_resolve_path(PathDiv(SEARCH_DIRECTORIES[i], file_name)))

\* the absolute or home-relative input has been validated, or is neither
FindDirect(file_name, direct) ==
    IF direct.kind = "raise" THEN {Raised}
    ELSE IF direct.kind = "path" THEN {direct}
    ELSE SearchFrom(1, file_name)

\* find_file(file_name): the set of values it can return
find_file(file_name) ==
    FindDirect(file_name,
               IF isabs(file_name) \/ StartsWith(file_name, <<"~">>)
               THEN validate_and_resolve_path(file_name) ELSE None)

\* the real path of the file an input names
RealOf(file_path) == realpath(AbsPath(file_path))

\* real is an allowed root or starts with an allowed root followed by the separator
Inside(real) ==
    \E i \in 1..Len(SEARCH_DIRECTORIES) :
        \/ real = SEARCH_DIRECTORIES[i]
        \/ StartsWith(real, SEARCH_DIRECTORIES[i] \o <<SEP>>)

(***************************************************************************)
(* core/paths.py: list_pdf_files_text                                      *)
(***************************************************************************)
MAX_DEPTH == 5
MAX_LIMIT == 200

Min(a, b) == IF a < b THEN a ELSE b

Max(a, b) == IF a > b THEN a ELSE b

ALL == <<"a", "l", "l">>

\* os.path.isdir and Path.is_dir, which follow symlinks: "raise" for an
\* error other than ENOENT/ENOTDIR (Path.is_dir only)
is_dir(p) ==
    LET Of(st) == IF st.kind = "eacces" THEN "raise"
                  ELSE IF st.kind = "dir" THEN "yes" ELSE "no"
    IN Of(stat(realpath(p)))

\* the entries of directory d
Entries(d) ==
    IF Unsearchable(d \o <<SEP>>) \/ Node(d).kind # "dir" THEN {}
    ELSE {p \in (Slots \cup FixedFiles \cup FixedDirs) \ {ROOT} :
            pathsplit(p)[1] = d /\ Node(p).kind # "absent"}

\* the directories os.walk(root, followlinks=False) visits from ds down to depth
RECURSIVE WalkDirs(_, _)
WalkDirs(ds, depth) ==
    IF depth <= 0 \/ ds = {} THEN ds
    ELSE ds \cup WalkDirs({p \in UNION {Entries(d) : d \in ds} : Node(p).kind = "dir"},
                          depth - 1)

\* the names under root, down to depth, that end in .pdf whatever their case
WalkPdfs(root, depth) ==
    {p \in UNION {Entries(d) : d \in WalkDirs({root}, depth)} :
        Node(p).kind # "dir" /\ EndsWith(Lower(basename(p)), PDF)}

\* what is_file says of each name found: ok is FALSE where is_file raises
Gathered(kind) ==
    [ok |-> \A f \in DOMAIN kind : kind[f] # "raise",
     files |-> {f \in DOMAIN kind : kind[f] = "yes"}]

\* a walk that goes one level deeper than asked
GatherUnder_Deeper(real, depth) == WalkPdfs(real, depth + 1)

\* root = os.path.realpath(root), then the glob or the walk
GatherUnder(real, depth) == IF depth <= 0 THEN GlobPdf(real) ELSE WalkPdfs(real, depth)

GatherFiles(found) == Gathered([f \in found |-> is_file(realpath(f))])

\* _gather_pdfs_under(root, depth): the files found
_gather_pdfs_under(root, depth) == GatherFiles(GatherUnder(realpath(root), depth))

\* the candidate of _resolve_subdir_target once made real: the directory, or
\* <<>> for None
ResolveTarget(cand) ==
    IF is_dir(cand) # "yes" THEN <<>>
    ELSE IF \E i \in 1..Len(SEARCH_DIRECTORIES) : _is_within(SEARCH_DIRECTORIES[i], cand)
    THEN cand ELSE <<>>

\* _resolve_subdir_target(directory_filter): the directory, or <<>> for None
_resolve_subdir_target(directory_filter) ==
    IF ~(isabs(directory_filter) \/ InSeq(SEP, directory_filter)) THEN <<>>
    ELSE ResolveTarget(realpath(abspath(expanduser(directory_filter))))

\* the name dirs: alias tells whether it names the list SEARCH_DIRECTORIES
Alias(list) == [alias |-> TRUE, list |-> list]

\* an assignment to the slice dirs[:] in place of one to the name
Rebind_InPlace(dirs, list) == [alias |-> dirs.alias, list |-> list]

\* dirs = <a new list>
Rebind(dirs, list) == [alias |-> FALSE, list |-> list]

\* the list SEARCH_DIRECTORIES after the run, given what dirs names
Global(dirs) == IF dirs.alias THEN dirs.list ELSE SEARCH_DIRECTORIES

\* one directory of the loop: g is what was gathered under it, rest the
\* outcome for the directories after it; shown is any limit files (the most
\* recent ones)
ListScan(d, g, rest, limit) ==
    [ok |-> g.ok /\ rest.ok,
     lists |-> {<<[dir |-> d, total |-> Cardinality(g.files), shown |-> S]>> \o r :
                   S \in {T \in SUBSET g.files :
                            Cardinality(T) = Min(limit, Cardinality(g.files))},
                   r \in rest.lists}]

\* `if not Path(d).is_dir(): continue`, then the scan
ListDir(d, isdir, depth, limit, rest) ==
    IF isdir = "raise" THEN [ok |-> FALSE, lists |-> {}]
    ELSE IF isdir = "no" THEN rest
    ELSE ListScan(d, _gather_pdfs_under(d, depth), rest, limit)

\* the loop over dirs from index i: the possible sequences of
\* [dir, total, shown]; ok is FALSE where a directory or a file cannot be
\* examined
RECURSIVE ListFrom(_, _, _, _)
ListFrom(dirs, i, depth, limit) ==
    IF i > Len(dirs) THEN [ok |-> TRUE, lists |-> {<<>>}]
    ELSE ListDir(dirs[i], is_dir(dirs[i]), depth, limit, ListFrom(dirs, i + 1, depth, limit))

ListText(head, arg) == [kind |-> "text", head |-> head, arg |-> arg, tail |-> ""]

\* the answers for the outcome r of the loop
ListAnswers(dirs, r) ==
    IF ~r.ok
    THEN {[out |-> ListText("Error: ", <<>>), listed |-> <<>>,
           SEARCH_DIRECTORIES |-> Global(dirs)]}
    ELSE {[out |-> IF l = <<>>
                   THEN ListText("No PDF files found in the accessible directories.", <<>>)
                   ELSE ListText("Directories scanned: ", <<>>),
           listed |-> l, SEARCH_DIRECTORIES |-> Global(dirs)] : l \in r.lists}

\* the directories to scan: <<dirs, whether any directory matched>>
ListChosen(dirs, subdir, directory) ==
    IF directory = ALL THEN <<dirs, TRUE>>
    ELSE IF subdir # <<>> THEN <<Rebind(dirs, <<subdir>>), TRUE>>
    ELSE <<Rebind(dirs, SelectSeq(SEARCH_DIRECTORIES,
                                  LAMBDA d : \/ Contains(Lower(basename(d)), Lower(directory))
                                             \/ Contains(d, directory))),
           \E i \in 1..Len(SEARCH_DIRECTORIES) :
               \/ Contains(Lower(basename(SEARCH_DIRECTORIES[i])), Lower(directory))
               \/ Contains(SEARCH_DIRECTORIES[i], directory)>>

ListRun(c, directory, depth_clamped, limit_clamped) ==
    IF ~c[2]
    THEN {[out |-> ListText("Error: No accessible directory matched '", directory),
           listed |-> <<>>, SEARCH_DIRECTORIES |-> Global(c[1])]}
    ELSE ListAnswers(c[1], ListFrom(c[1].list, 1, depth_clamped, limit_clamped))

\* list_pdf_files_text(directory, depth, limit): the possible answers, each
\* with what the run leaves in SEARCH_DIRECTORIES
list_pdf_files_text(directory, depth, limit) ==
    ListRun(ListChosen(Alias(SEARCH_DIRECTORIES),
                       IF directory = ALL THEN <<>> ELSE _resolve_subdir_target(directory),
                       directory),
            directory, Max(0, Min(depth, MAX_DEPTH)), Max(1, Min(limit, MAX_LIMIT)))

(***************************************************************************)
(* main.py: the legacy copy of validate_and_resolve_path                   *)
(***************************************************************************)
MainResolved(file_path, real_path) ==
    IF \/ ~\E i \in 1..Len(SEARCH_DIRECTORIES) :
              \/ StartsWith(real_path, SEARCH_DIRECTORIES[i] \o <<SEP>>)
              \/ real_path = SEARCH_DIRECTORIES[i]
       \/ InSeq(DOTDOT, PathParts(file_path))
    THEN None
    ELSE FileChecks(real_path)

MainValidateTry(file_path) == MainResolved(file_path, realpath(AbsPath(file_path)))

main_validate_and_resolve_path(file_path) == CatchNone(MainValidateTry(file_path))

(***************************************************************************)
(* tools/mcp_tools.py: what a tool answers once find_file has run          *)
(***************************************************************************)
Tools == {"extract_annotations", "extract_highlights_with_context", "read_pdf_text"}

NoText == [kind |-> "none", head |-> "", arg |-> <<>>, tail |-> ""]

\* a message that tells a missing file from a refused one
NotFoundText_Leaky(tool, file_path) ==
    [kind |-> "text",
     head |-> IF Node(RealOf(file_path)).kind = "absent"
              THEN "Error: Could not find file '" ELSE "Error: Access denied to '",
     arg |-> file_path, tail |-> "'."]

\* the message of a tool whose file was not found
NotFoundText(tool, file_path) ==
    IF tool = "extract_annotations"
    THEN [kind |-> "text", head |-> "Error: Could not find file '", arg |-> file_path,
          tail |-> "'. Provide an absolute path or place the file within the configured accessible directories."]
    ELSE [kind |-> "text", head |-> "Error: Could not find file '", arg |-> file_path,
          tail |-> "'."]

\* the tool up to the point where it hands the resolved path to its backend
ToolOutcome(tool, file_path, path) ==
    IF path.kind = "raise" THEN [kind |-> "raise", head |-> tool, arg |-> <<>>, tail |-> ""]
    ELSE IF path.kind = "none" THEN NotFoundText(tool, file_path)
    ELSE [kind |-> "backend", head |-> tool, arg |-> path.path, tail |-> ""]

(***************************************************************************)
(* core/paths.py: setup_search_directories                                 *)
(***************************************************************************)
\* MAX_FILE_SIZE at import (100 MiB), scaled to the sizes of the model's files
DEFAULT_MAX_FILE_SIZE == MaxSize

\* DEFAULT_SEARCH_DIRECTORIES: ~/Downloads, ~/Desktop, ~/Documents, os.getcwd()
DEFAULT_SEARCH_DIRECTORIES ==
    << expanduser(<<"~", "/", "D", "l">>), expanduser(<<"~", "/", "D", "t">>),
       expanduser(<<"~", "/", "D", "c">>), CWD >>

\* no defaults at all
DefaultRoots_None == <<>>

\* the defaults as setup_search_directories stores them
DefaultRoots ==
    [i \in 1..Len(DEFAULT_SEARCH_DIRECTORIES) |->
        realpath(abspath(expanduser(DEFAULT_SEARCH_DIRECTORIES[i])))]

\* the loop over the provided directories: <<validated, made>>, made being
\* the directories os.makedirs created
RECURSIVE SetupLoop(_, _, _)
SetupLoop(provided, validated, made) ==
    IF provided = <<>> THEN <<validated, made>>
    ELSE LET Made(real_path, mkdirFails, made2) ==
                 LET isdir == real_path \in made2
                              \/ (~Unsearchable(real_path) /\ Node(real_path).kind = "dir")
                     readable == real_path \notin locked
                 IN IF mkdirFails \/ ~isdir \/ ~readable
                    THEN SetupLoop(Tail(provided), validated, made2)
                    ELSE SetupLoop(Tail(provided), Append(validated, real_path), made2)
             Directory(real_path) ==
                 LET exists == \/ real_path \in made
                               \/ (~Unsearchable(real_path) /\ Node(real_path).kind # "absent")
                     mkdirFails == ~exists /\ (Unsearchable(real_path) \/ real_path \notin Slots)
                 IN Made(real_path, mkdirFails,
                         IF exists \/ mkdirFails THEN made ELSE made \cup {real_path})
         IN Directory(realpath(abspath(expanduser(Head(provided)))))

\* args.directories followed by args.allowed_dirs
DirArgs ==
    { <<>>, <<D_a, D_b>>, <<D_b, D_a>>, <<D_a, P_os>>, <<P_os>>, <<P_ak>> }

setup_search_directories(provided, max_file_size) ==
    /\ phase = "startup"
    /\ pc = "idle"
    /\ MAX_FILE_SIZE' = max_file_size
    /\ IF provided = <<>>
       THEN /\ SEARCH_DIRECTORIES' = DefaultRoots
            /\ fs' = fs
       ELSE \E r \in {SetupLoop(provided, <<>>, {})} :
               /\ SEARCH_DIRECTORIES' = IF r[1] = <<>> THEN DefaultRoots ELSE r[1]
               /\ fs' = [p \in Slots |-> IF p \in r[2] THEN Dir ELSE fs[p]]
    /\ phase' = "serving"
    /\ UNCHANGED <<locked, pc, last, prev, pr, hl, tx, an, handles, tools_MAX_FILE_SIZE, mn>>

(***************************************************************************)
(* The environment: files appear, change and disappear; a directory loses  *)
(* or regains its permissions.                                             *)
(***************************************************************************)
SetSlot(p, c) ==
    /\ pc = "idle"
    /\ fs[p] # c
    /\ fs' = [fs EXCEPT ![p] = c]
    /\ UNCHANGED <<locked, phase, SEARCH_DIRECTORIES, MAX_FILE_SIZE, pc, last, prev, pr, hl,
                   tx, an, handles, tools_MAX_FILE_SIZE, mn>>

Chmod(d) ==
    /\ pc = "idle"
    /\ locked' = IF d \in locked THEN locked \ {d} ELSE locked \cup {d}
    /\ UNCHANGED <<fs, phase, SEARCH_DIRECTORIES, MAX_FILE_SIZE, pc, last, prev, pr, hl, tx,
                   an, handles, tools_MAX_FILE_SIZE, mn>>

(***************************************************************************)
(* Requests.                                                               *)
(***************************************************************************)
NoCall ==
    [op |-> "none", input |-> <<>>, res |-> None, out |-> NoText, reason |-> "none",
     listed |-> <<>>, depth |-> 0, limit |-> 0]

\* why the file an input names cannot be served, were it asked for directly
Reason(file_path) ==
    LET Of(real_path) ==
            LET n == Node(real_path)
            IN IF Unsearchable(real_path) THEN "unreadable"
               ELSE IF n.kind = "absent" THEN "missing"
               ELSE IF ~Inside(real_path) THEN "outside"
               ELSE IF n.kind # "file" THEN "notfile"
               ELSE IF Lower(PathSuffix(real_path)) # PDF THEN "extension"
               ELSE IF n.size > MAX_FILE_SIZE THEN "size"
               ELSE IF InSeq(DOTDOT, PathParts(file_path)) THEN "dotdot"
               ELSE "ok"
    IN Of(RealOf(file_path))

Answer(op, file_path, res, out) ==
    /\ phase = "serving"
    /\ pc = "idle"
    /\ pc' = "returned"
    /\ last' = [op |-> op, input |-> file_path, res |-> res, out |-> out,
                reason |-> Reason(file_path), listed |-> <<>>,
                depth |-> 0, limit |-> 0]
    /\ UNCHANGED <<fs, locked, phase, SEARCH_DIRECTORIES, MAX_FILE_SIZE, prev, pr, hl, tx, an,
                   handles, tools_MAX_FILE_SIZE, mn>>

CallValidate(file_path) ==
    Answer("validate_and_resolve_path", file_path,
           validate_and_resolve_path(file_path), NoText)

CallMainValidate(file_path) ==
    Answer("main.validate_and_resolve_path", file_path,
           main_validate_and_resolve_path(file_path), NoText)

CallFindFile(file_name) ==
    /\ phase = "serving" /\ pc = "idle"
    /\ \E r \in find_file(file_name) : Answer("find_file", file_name, r, NoText)

CallTool(tool, file_path) ==
    /\ phase = "serving" /\ pc = "idle"
    /\ \E r \in find_file(file_path) :
          Answer(tool, file_path, r, ToolOutcome(tool, file_path, r))

\* list_pdf_files_text, and so the tool list_pdf_files: a possible answer,
\* and the value its run leaves in SEARCH_DIRECTORIES
CallList(directory, depth, limit) ==
    /\ phase = "serving" /\ pc = "idle"
    /\ \E r \in list_pdf_files_text(directory, depth, limit) :
          /\ pc' = "returned"
          /\ last' = [op |-> "list_pdf_files_text", input |-> directory, res |-> None,
                      out |-> r.out, reason |-> "none", listed |-> r.listed,
                      depth |-> depth, limit |-> limit]
          /\ SEARCH_DIRECTORIES' = r.SEARCH_DIRECTORIES
    /\ UNCHANGED <<fs, locked, phase, MAX_FILE_SIZE, prev, pr, hl, tx, an, handles,
                   tools_MAX_FILE_SIZE, mn>>

Failed(c) == c.op # "none" /\ c.res.kind = "none"

\* the response is delivered; with track, a failed request is remembered
Return(track) ==
    /\ pc = "returned"
    /\ pc' = "idle"
    /\ last' = NoCall
    /\ prev' = IF track /\ Failed(last) THEN last ELSE prev
    /\ UNCHANGED <<fs, locked, phase, SEARCH_DIRECTORIES, MAX_FILE_SIZE, pr, hl, tx, an,
                   handles, tools_MAX_FILE_SIZE, mn>>

(***************************************************************************)
(* The inputs of the requests.                                             *)
(***************************************************************************)
I_ak == P_ak                                              \* /a/k.pdf
I_dd == D_a \o <<"/", "x", "/", ".", ".", "/">> \o N_k    \* /a/x/../k.pdf
I_abk == P_abk                                            \* /ab/k.pdf
I_aKP == P_aKP                                            \* /a/K.PDF
I_at == P_at                                              \* /a/t.txt
I_os == P_os                                              \* /o/s.pdf
I_k == N_k                                                \* k.pdf
I_rdd == <<".", ".", "/", "a", "/">> \o N_k               \* ../a/k.pdf
I_tk == <<"~", "k">>                                      \* ~k
I_hk == <<"~", "/">> \o N_k                               \* ~/k.pdf
I_K == <<"K">>                                            \* K
I_e == <<>>                                               \* the empty string
I_t == <<"~">>                                            \* ~

Candidates == {I_ak, I_dd, I_abk, I_aKP, I_at, I_os, I_k, I_rdd, I_tk, I_hk, I_K, I_e, I_t, D_a}

\* the inputs of find_file, and those of the tools
Names == {I_ak, I_dd, I_k, I_tk, I_hk, I_K, I_e, I_os}
ToolNames == {I_ak, I_k, I_tk, I_abk}

LeakInputs == {I_ak}

\* the directory filters, depths and limits of list_pdf_files
ListFilters == {ALL, <<"a">>, <<"A">>, D_a, D_o, <<"z">>}
ListDepths == {0, 1}
ListLimits == {1, 50}

\* the value of a name of a module that has not been imported
Unbound == [bound |-> FALSE, value |-> 0]

\* the value v of a name of an imported module
Bound(v) == [bound |-> TRUE, value |-> v]

\* no function of main.py is being called
NoMain == [op |-> "none", res |-> "none", out |-> <<>>, compared |-> <<>>, used |-> <<>>,
           total |-> 0, doc |-> [pages |-> <<>>], page_range |-> <<>>]

PathInit ==
    /\ fs = [p \in Slots |-> Absent]
    /\ locked = {}
    /\ phase = "startup"
    /\ SEARCH_DIRECTORIES = <<>>
    /\ MAX_FILE_SIZE = DEFAULT_MAX_FILE_SIZE
    /\ pc = "idle"
    /\ last = NoCall
    /\ prev = NoCall
    /\ tools_MAX_FILE_SIZE = Unbound
    /\ mn = NoMain

\* no call of extract_highlights_with_context is in progress
NoHighlights ==
    [res |-> "none", doc |-> <<>>, page_range |-> <<>>, drop_empty |-> FALSE,
     primary |-> <<>>, boxes |-> <<>>, unions |-> <<>>, of |-> <<>>, out |-> <<>>,
     read |-> <<>>]

\* no call of parse_page_range is in progress
NoParse == [total |-> 0, spec |-> <<>>, shape |-> "none", s |-> 0, e |-> 0,
            res |-> "none", pages |-> <<>>]

\* no call of a function of core/bbox.py is in progress
NoTextCall ==
    [res |-> "none", op |-> "none", words |-> <<>>, bbox |-> <<>>, primary |-> "none",
     lines |-> <<>>, out |-> <<>>]

\* no call of extract_annotations or of a tool is in progress
NoAnnotations ==
    [op |-> "none", res |-> "none", doc |-> <<>>, page_range |-> <<>>, include |-> <<>>,
     types |-> {}, drop_empty |-> FALSE, fault |-> "none", items |-> <<>>,
     answer |-> "none"]

NoBackend == an = NoAnnotations /\ handles = {}

IdleRest == pr = NoParse /\ hl = NoHighlights /\ tx = NoTextCall /\ NoBackend

Init == PathInit /\ IdleRest

Next ==
    \/ \E d \in DirArgs, m \in 1..MaxSize : setup_search_directories(d, m)
    \/ \E p \in Slots : \E c \in SlotContents(p) : SetSlot(p, c)
    \/ \E d \in LockableDirs : Chmod(d)
    \/ \E s \in Candidates : CallValidate(s)
    \/ \E s \in Candidates : CallMainValidate(s)
    \/ \E s \in Names : CallFindFile(s)
    \/ \E t \in Tools, s \in ToolNames : CallTool(t, s)
    \/ \E d \in ListFilters, depth \in ListDepths, limit \in ListLimits : CallList(d, depth, limit)
    \/ Return(FALSE)

Spec == Init /\ [][Next]_vars

(***************************************************************************)
(* SpecLeak: the same requests for one input, with a failed request        *)
(* remembered while the file it names changes.                             *)
(***************************************************************************)
LeakDirArgs == { <<D_a, D_b>> }

NextLeak ==
    \/ \E d \in LeakDirArgs, m \in 1..MaxSize : setup_search_directories(d, m)
    \/ \E c \in SlotContents(P_ak) : SetSlot(P_ak, c)
    \/ \E d \in LockableDirs : Chmod(d)
    \/ \E s \in LeakInputs : CallValidate(s)
    \/ \E s \in LeakInputs : CallMainValidate(s)
    \/ \E s \in LeakInputs : CallFindFile(s)
    \/ \E t \in Tools, s \in LeakInputs : CallTool(t, s)
    \/ Return(TRUE)

SpecLeak == Init /\ [][NextLeak]_vars

(***************************************************************************)
(* tools/mcp_tools.py: show_accessible_directories.  The module binds its   *)
(* own name MAX_FILE_SIZE when it is imported, before or after              *)
(* setup_search_directories has run, and reads SEARCH_DIRECTORIES through   *)
(* the module core/paths.py.                                                *)
(***************************************************************************)
\* 1024 * 1024 bytes; the sizes of the model count half MiB
MIB == 2

\* from pdf_annotator.core.paths import MAX_FILE_SIZE
import_mcp_tools ==
    /\ pc = "idle"
    /\ tools_MAX_FILE_SIZE = Unbound
    /\ tools_MAX_FILE_SIZE' = Bound(MAX_FILE_SIZE)
    /\ UNCHANGED <<fs, locked, phase, SEARCH_DIRECTORIES, MAX_FILE_SIZE, pc, last, prev, pr, hl,
                   tx, an, handles, mn>>

\* the object show_accessible_directories dumps as JSON
show_accessible_directories ==
    [accessible_directories |-> SEARCH_DIRECTORIES,
     directory_count |-> Len(SEARCH_DIRECTORIES),
     max_file_size_mb |-> tools_MAX_FILE_SIZE.value \div MIB,
     allowed_extensions |-> ALLOWED_EXTENSIONS]

CallShow ==
    /\ phase = "serving"
    /\ pc = "idle"
    /\ tools_MAX_FILE_SIZE # Unbound
    /\ pc' = "returned"
    /\ last' = [NoCall EXCEPT !.op = "show_accessible_directories",
                              !.out = show_accessible_directories]
    /\ UNCHANGED <<fs, locked, phase, SEARCH_DIRECTORIES, MAX_FILE_SIZE, prev, pr, hl, tx, an,
                   handles, tools_MAX_FILE_SIZE, mn>>

NextConfig ==
    \/ \E d \in DirArgs, m \in 1..MaxSize : setup_search_directories(d, m)
    \/ import_mcp_tools
    \/ \E p \in Slots : \E c \in SlotContents(p) : SetSlot(p, c)
    \/ \E s \in {I_ak} : CallValidate(s)
    \/ CallShow
    \/ Return(FALSE)

SpecConfig == Init /\ [][NextConfig]_vars

(***************************************************************************)
(* The listing on its own: list_pdf_files with every kind of filter, with   *)
(* depths below, at and above the clamp, and limits on both sides of the    *)
(* number of files.                                                         *)
(***************************************************************************)
ListDirArgs == { <<>>, <<D_w>>, <<D_a, D_b>>, <<D_w1, D_a>>, <<P_ak>> }

P_wo == D_w \o <<SEP, ".", ".", SEP, "o">>                \* /w/../o

\* what a slot may hold: also a symlink to the directory /o
ListSlotContents(p) == SlotContents(p) \cup (IF p = P_ak THEN {Link(D_o)} ELSE {})

WideFilters == {ALL, <<"a">>, <<"z">>, D_w1, D_o, P_wo, P_ak}
WideDepths == {0 - 1, 0, 1, 5, 6, 7}
WideLimits == {1, 50, 300}

NextList ==
    \/ \E d \in ListDirArgs, m \in 1..MaxSize : setup_search_directories(d, m)
    \/ \E p \in Slots : \E c \in ListSlotContents(p) : SetSlot(p, c)
    \/ \E d \in LockableDirs : Chmod(d)
    \/ \E d \in WideFilters, depth \in WideDepths, limit \in WideLimits :
          CallList(d, depth, limit)
    \/ Return(FALSE)

SpecList == Init /\ [][NextList]_vars

(***************************************************************************)
(* Claims about the path sandbox resolver.                                 *)
(***************************************************************************)
Returned(ops) == pc = "returned" /\ last.op \in ops

ValidateOps == {"validate_and_resolve_path", "main.validate_and_resolve_path"}
FindOps == {"find_file"} \cup Tools

\* some "/"-separated segment of s is ".."
HasDotDotSegment(s) == InSeq(DOTDOT, SplitOn(s, SEP))

\* p is a regular file the sandbox may serve: it exists, is its own real path,
\* lies in an allowed root, ends in .pdf in any case and is not too large
Servable(p) ==
    /\ ~Unsearchable(p)
    /\ Node(p).kind = "file"
    /\ realpath(p) = p
    /\ Inside(p)
    /\ Len(p) > Len(PDF)
    /\ Lower(SubSeq(p, Len(p) - Len(PDF) + 1, Len(p))) = PDF
    /\ Node(p).size <= MAX_FILE_SIZE

\* C1: a candidate with a ".." segment is never resolved, by either copy of
\* validate_and_resolve_path, wherever its real path lands.
C1_DotDotRejected ==
    (Returned(ValidateOps) /\ HasDotDotSegment(last.input)) => last.res = None

\* C1 witness: /a/x/../k.pdf was asked for while /a/k.pdf, its real path, is a
\* servable file.
C1_Witness ==
    /\ Returned({"validate_and_resolve_path"})
    /\ last.input = I_dd
    /\ RealOf(I_dd) = P_ak
    /\ Servable(P_ak)
    /\ last.res = None

\* C2 as claimed: a candidate whose real path is neither an allowed root nor
\* starts with an allowed root followed by the separator is not resolved.
C2_OutsideRejected ==
    (Returned({"validate_and_resolve_path"}) /\ ~Inside(RealOf(last.input)))
        => last.res = None

\* C3 as claimed: whatever validate_and_resolve_path or find_file returns is a
\* servable file, and find_file returns only what validate_and_resolve_path
\* accepts.
C3_ResolvedIsServable ==
    (Returned({"validate_and_resolve_path"} \cup FindOps) /\ last.res.kind = "path")
        => /\ Servable(last.res.path)
           /\ validate_and_resolve_path(last.res.path) = last.res

\* the valid files whose name is exactly file_name, one per root at most
ExactMatches(file_name) ==
    {r \in {validate_and_resolve_path(PathDiv(SEARCH_DIRECTORIES[i], file_name)) :
                i \in 1..Len(SEARCH_DIRECTORIES)} : r.kind = "path"}

\* C4 as claimed: when some root holds a valid file named exactly as the
\* relative input, find_file returns an exact-name match.
C4_ExactBeforeFuzzy ==
    (Returned({"find_file"}) /\ ~isabs(last.input) /\ ~StartsWith(last.input, <<"~">>)
        /\ ExactMatches(last.input) # {})
        => last.res \in ExactMatches(last.input)

\* C5 as claimed: for an absolute or "~" input find_file returns what
\* validate_and_resolve_path returns for it.
C5_DirectOnly ==
    (Returned({"find_file"}) /\ (isabs(last.input) \/ StartsWith(last.input, <<"~">>)))
        => last.res = validate_and_resolve_path(last.input)

\* C6: validate_and_resolve_path and find_file never raise.
C6_NeverRaises ==
    Returned(ValidateOps \cup {"find_file"}) => last.res.kind # "raise"

\* C6 witness: stat failed inside validate_and_resolve_path (the root /a lost
\* its permissions) and the caller got None.
C6_Witness ==
    /\ Returned({"validate_and_resolve_path"})
    /\ last.input = I_ak
    /\ ValidateTry(I_ak) = Raised
    /\ last.res = None

\* the reasons for which a resolution fails that the claim names
LeakReasons == {"missing", "outside", "extension", "size"}

\* C7: two failed requests of the same operation for the same input have the
\* same outcome (result and text), whatever the reasons of the failures.
C7_FailureUniform ==
    (Returned(ValidateOps \cup FindOps) /\ Failed(last) /\ Failed(prev)
        /\ prev.op = last.op /\ prev.input = last.input)
        => (prev.res = last.res /\ prev.out = last.out)

\* C7 witness: a tool failed for /a/k.pdf once because the file was too large
\* and once because its real path was outside every root.
C7_Witness ==
    /\ Returned(Tools)
    /\ Failed(last) /\ Failed(prev)
    /\ prev.op = last.op /\ prev.input = last.input
    /\ prev.reason = "size" /\ last.reason = "outside"
    /\ prev.out = last.out

\* C20: once the server is serving, no step of a request (a call of
\* validate_and_resolve_path, find_file, list_pdf_files_text with any
\* directory filter, or a tool), in any order, changes SEARCH_DIRECTORIES or
\* MAX_FILE_SIZE; they are written by setup_search_directories only.
C20_ConfigurationFixed ==
    [][phase = "serving" =>
          (SEARCH_DIRECTORIES' = SEARCH_DIRECTORIES /\ MAX_FILE_SIZE' = MAX_FILE_SIZE)]_vars

\* C20 witness: with the roots /a and /b, set up with a size limit other
\* than the default, list_pdf_files_text has answered for the filter "a" by
\* scanning /a alone, and both roots are still configured.
C20_Witness ==
    /\ phase = "serving"
    /\ last.op = "list_pdf_files_text"
    /\ last.input = <<"a">>
    /\ Len(last.listed) = 1
    /\ last.listed[1].dir = D_a
    /\ last.listed[1].total >= 1
    /\ SEARCH_DIRECTORIES = <<D_a, D_b>>
    /\ MAX_FILE_SIZE # DEFAULT_MAX_FILE_SIZE

\* p is a directory that can be read
ReadableDir(p) == Node(p).kind = "dir" /\ ~Unsearchable(p) /\ p \notin locked

\* C21: when setup_search_directories returns, SEARCH_DIRECTORIES is not
\* empty, whatever directories were given: with none given it holds the
\* defaults, and otherwise it holds either the defaults or only readable
\* directories that were given.
C21_RootsNonEmpty ==
    [][\A d \in DirArgs, m \in 1..MaxSize :
          setup_search_directories(d, m) =>
              \A roots \in {SEARCH_DIRECTORIES'} :
                  /\ roots # <<>>
                  /\ d = <<>> => roots = DefaultRoots
                  /\ \/ roots = DefaultRoots
                     \/ \A i \in 1..Len(roots) :
                           /\ ReadableDir(roots[i])'
                           /\ \E j \in 1..Len(d) :
                                 realpath(abspath(expanduser(d[j]))) = roots[i]]_vars

\* C21 witness: the server serves with the four default directories although
\* /a/k.pdf, a plain file and so no usable directory, exists.
C21_Witness ==
    /\ phase = "serving"
    /\ fs[P_ak].kind = "file"
    /\ Len(SEARCH_DIRECTORIES) = 4
    /\ SEARCH_DIRECTORIES = DefaultRoots

\* C25: once setup_search_directories has applied the configured maximum,
\* show_accessible_directories reports that maximum in whole MiB, the limit
\* validate_and_resolve_path enforces, and the configured allow-list with its
\* length.
C25_ReportsConfiguration ==
    (pc = "returned" /\ last.op = "show_accessible_directories") =>
        /\ last.out.max_file_size_mb = MAX_FILE_SIZE \div MIB
        /\ last.out.accessible_directories = SEARCH_DIRECTORIES
        /\ last.out.directory_count = Len(SEARCH_DIRECTORIES)

(***************************************************************************)
(* Claims about the listing.                                               *)
(***************************************************************************)
ListReturned == pc = "returned" /\ last.op = "list_pdf_files_text"

\* f lies below the directory dir
Below(f, dir) == StartsWith(f, dir \o <<SEP>>)

\* the number of directory levels between dir and the file f below it
Levels(f, dir) == Cardinality({i \in (Len(dir) + 2)..Len(f) : f[i] = SEP})

Clamp(d, lo, hi) == IF d < lo THEN lo ELSE IF d > hi THEN hi ELSE d

\* C22: every file list_pdf_files_text shows for the requested depth d lies at
\* most clamp(d, 0, 5) directory levels below the directory scanned (none in
\* a subdirectory for d <= 0, whatever the limit), and a depth above 5 gives
\* the answers of depth 5.
C22_DepthClamped ==
    /\ ListReturned =>
          \A i \in 1..Len(last.listed) : \A f \in last.listed[i].shown :
              /\ Below(f, realpath(last.listed[i].dir))
              /\ Levels(f, realpath(last.listed[i].dir)) <= Clamp(last.depth, 0, 5)
    /\ (phase = "serving" /\ pc = "idle") =>
          \A d \in WideFilters, limit \in WideLimits, depth \in {6, 7} :
              list_pdf_files_text(d, depth, limit) = list_pdf_files_text(d, 5, limit)

\* C22 witness: asked for depth 7 with the root /w, the listing counts the two
\* files one and five levels down and shows the one five levels down, the file
\* six levels down being left out.
C22_Witness ==
    /\ ListReturned
    /\ last.depth = 7
    /\ Len(last.listed) = 1
    /\ last.listed[1].dir = D_w
    /\ last.listed[1].total = 2
    /\ P_w5s \in last.listed[1].shown

\* C23: whatever the filter, every directory list_pdf_files_text scans is an
\* allowed root or a directory whose real path is inside an allowed root.
C23_ScansInsideRoots ==
    ListReturned =>
        \A i \in 1..Len(last.listed) :
            \/ InSeq(last.listed[i].dir, SEARCH_DIRECTORIES)
            \/ Inside(realpath(last.listed[i].dir))

\* C24: every file list_pdf_files shows is one validate_and_resolve_path
\* accepts: its real path is inside an allowed root, it is a regular file
\* named .pdf and it is no larger than MAX_FILE_SIZE.
C24_ShownAreServable ==
    ListReturned =>
        \A i \in 1..Len(last.listed) : \A f \in last.listed[i].shown :
            /\ Inside(realpath(f))
            /\ stat(realpath(f)).kind = "file"
            /\ stat(realpath(f)).size <= MAX_FILE_SIZE
            /\ EndsWith(Lower(realpath(f)), PDF)
            /\ validate_and_resolve_path(f).kind = "path"

\* no allowed root is, now, a symlink
RootsUnmoved == \A i \in 1..Len(SEARCH_DIRECTORIES) :
                    realpath(SEARCH_DIRECTORIES[i]) = SEARCH_DIRECTORIES[i]

(***************************************************************************)
(* core/page_range.py: parse_page_range                                    *)
(***************************************************************************)
Digits == <<"0", "1", "2", "3", "4", "5", "6", "7", "8", "9">>

IsDigit(c) == InSeq(c, Digits)

DigitVal(c) == CHOOSE d \in 0..9 : Digits[d + 1] = c

IsSpace(c) == c = " "

\* str.strip()
RECURSIVE Strip(_)
Strip(t) ==
    IF Len(t) > 0 /\ IsSpace(t[1]) THEN Strip(Tail(t))
    ELSE IF Len(t) > 0 /\ IsSpace(t[Len(t)]) THEN Strip(SubSeq(t, 1, Len(t) - 1))
    ELSE t

\* the value of a string of decimal digits
RECURSIVE DigitsVal(_, _)
DigitsVal(t, acc) ==
    IF t = <<>> THEN acc ELSE DigitsVal(Tail(t), 10 * acc + DigitVal(t[1]))

\* int(t) for a str: blanks around, an optional sign, decimal digits;
\* anything else is a ValueError ("_" does not occur in the inputs)
int(t) ==
    LET u == Strip(t)
        signed == Len(u) > 0 /\ u[1] \in {"+", "-"}
        body == IF signed THEN Tail(u) ELSE u
    IN IF body = <<>> \/ \E i \in 1..Len(body) : ~IsDigit(body[i])
       THEN [ok |-> FALSE, val |-> 0]
       ELSE [ok |-> TRUE,
             val |-> IF signed /\ u[1] = "-" THEN 0 - DigitsVal(body, 0)
                     ELSE DigitsVal(body, 0)]

\* list(range(a, b))
Range(a, b) == [i \in 1..(IF b > a THEN b - a ELSE 0) |-> a + i - 1]

Pages(seq) == [res |-> "ok", pages |-> seq]
ValueError == [res |-> "ValueError", pages |-> <<>>]

NoneSpec == <<"N", "o", "n", "e">>     \* stands for page_range=None, never a str of the inputs
W_first == <<"f", "i", "r", "s", "t">>
W_last == <<"l", "a", "s", "t">>

\* parse_page_range whose range end is not clamped to total_pages
parse_page_range_NoClamp(total_pages, page_range, is_none) ==
    IF total_pages <= 0 THEN Pages(<<>>)
    ELSE IF is_none THEN Pages(Range(0, total_pages))
    ELSE LET pr_ == Lower(Strip(page_range)) IN
         IF pr_ = W_first THEN Pages(<<0>>)
         ELSE IF pr_ = W_last THEN Pages(<<total_pages - 1>>)
         ELSE IF FindChar(pr_, "-", 1) # 0
         THEN LET i == FindChar(pr_, "-", 1)
                  s_ == SubSeq(pr_, 1, i - 1)
                  e_ == SubSeq(pr_, i + 1, Len(pr_))
                  s_i == IF s_ # <<>> THEN int(s_) ELSE [ok |-> TRUE, val |-> 1]
                  e_i == IF e_ # <<>> THEN int(e_) ELSE [ok |-> TRUE, val |-> total_pages]
              IN IF ~s_i.ok \/ ~e_i.ok THEN ValueError
                 ELSE IF s_i.val < 1 \/ e_i.val < 1 \/ s_i.val > total_pages
                      THEN ValueError
                 ELSE Pages(Range(s_i.val - 1, e_i.val))
         ELSE LET p_ == int(pr_)
              IN IF ~p_.ok THEN ValueError
                 ELSE IF p_.val < 1 \/ p_.val > total_pages THEN ValueError
                 ELSE Pages(<<p_.val - 1>>)

\* parse_page_range(total_pages, page_range); is_none stands for page_range is None
parse_page_range(total_pages, page_range, is_none) ==
    IF total_pages <= 0 THEN Pages(<<>>)
    ELSE IF is_none THEN Pages(Range(0, total_pages))
    ELSE LET pr_ == Lower(Strip(page_range)) IN
         IF pr_ = W_first THEN Pages(<<0>>)
         ELSE IF pr_ = W_last THEN Pages(<<total_pages - 1>>)
         ELSE IF FindChar(pr_, "-", 1) # 0
         THEN LET i == FindChar(pr_, "-", 1)
                  s_ == SubSeq(pr_, 1, i - 1)
                  e_ == SubSeq(pr_, i + 1, Len(pr_))
                  s_i == IF s_ # <<>> THEN int(s_) ELSE [ok |-> TRUE, val |-> 1]
                  e_i == IF e_ # <<>> THEN int(e_) ELSE [ok |-> TRUE, val |-> total_pages]
              IN IF ~s_i.ok \/ ~e_i.ok THEN ValueError
                 ELSE IF s_i.val < 1 \/ e_i.val < 1 \/ s_i.val > total_pages
                      THEN ValueError
                 ELSE Pages(Range(s_i.val - 1, Min(e_i.val, total_pages)))
         ELSE LET p_ == int(pr_)
              IN IF ~p_.ok THEN ValueError
                 ELSE IF p_.val < 1 \/ p_.val > total_pages THEN ValueError
                 ELSE Pages(<<p_.val - 1>>)

(***************************************************************************)
(* SpecPages: parse_page_range is called with every page count and every   *)
(* page range string of a bounded set.                                     *)
(***************************************************************************)
MaxTotal == 10      \* documents have -1..MaxTotal pages (0 and -1: no usable page count)
BigPage == 100      \* a page number far beyond every document
Missing == 0 - 1000 \* the start or the end of a range left out

Totals == (0 - 1)..MaxTotal
PageNumbers == ((0 - 1)..(MaxTotal + 1)) \cup {BigPage}

\* str(n)
RECURSIVE NatStr(_)
NatStr(n) == IF n < 10 THEN <<Digits[n + 1]>> ELSE NatStr(n \div 10) \o <<Digits[(n % 10) + 1]>>

IntStr(n) == IF n < 0 THEN <<"-">> \o NatStr(0 - n) ELSE NatStr(n)

OptStr(n) == IF n = Missing THEN <<>> ELSE IntStr(n)

\* strings that are neither a keyword, nor a number, nor a range of numbers
Malformed ==
    { <<>>, <<" ">>, <<"a">>, <<"1", "-", "2", "-", "3">>, <<"3", "-", "a">>,
      <<"a", "-", "3">>, <<"1", ".", "5">>, <<"+">>, <<"2", " ", "3">> }

Styles == {"plain", "padded", "upper", "spaced"}

Upper(t) == [i \in 1..Len(t) |->
               CASE t[i] = "f" -> "F" [] t[i] = "i" -> "I" [] t[i] = "r" -> "R"
                 [] t[i] = "s" -> "S" [] t[i] = "t" -> "T" [] t[i] = "l" -> "L"
                 [] t[i] = "a" -> "A" [] OTHER -> t[i]]

\* the way a caller may write a specification
Styled(t, style) ==
    CASE style = "padded" -> <<" ">> \o t \o <<" ", " ">>
      [] style = "upper" -> Upper(t)
      [] OTHER -> t

\* the text of a request of the given shape
SpecText(shape, s, e, raw, style) ==
    CASE shape = "first" -> Styled(W_first, style)
      [] shape = "last" -> Styled(W_last, style)
      [] shape = "single" -> Styled(IntStr(s), style)
      [] shape = "range" ->
            IF style = "spaced"
            THEN OptStr(s) \o <<" ", "-", " ">> \o OptStr(e)
            ELSE Styled(OptStr(s) \o <<"-">> \o OptStr(e), style)
      [] shape = "raw" -> Styled(raw, style)
      [] OTHER -> NoneSpec

Parse(total, shape, s, e, raw, style) ==
    LET text == SpecText(shape, s, e, raw, style)
        r == parse_page_range(total, text, shape = "None")
    IN /\ pr' = [total |-> total, spec |-> text, shape |-> shape, s |-> s, e |-> e,
                 res |-> r.res, pages |-> r.pages]
       /\ UNCHANGED <<fs, locked, phase, SEARCH_DIRECTORIES, MAX_FILE_SIZE, pc, last, prev,
                      hl, tx, an, handles, tools_MAX_FILE_SIZE, mn>>

Idle == pr = NoParse /\ hl = NoHighlights /\ tx = NoTextCall /\ NoBackend

ParseNone ==
    Idle /\ \E t \in Totals : Parse(t, "None", 0, 0, <<>>, "plain")

ParseKeyword ==
    Idle /\ \E t \in Totals, w \in {"first", "last"}, y \in Styles : Parse(t, w, 0, 0, <<>>, y)

ParseSingle ==
    Idle /\ \E t \in Totals, n \in PageNumbers \cap Nat, y \in Styles :
                Parse(t, "single", n, 0, <<>>, y)

ParseRange ==
    Idle /\ \E t \in Totals, s \in PageNumbers \cup {Missing}, e \in PageNumbers \cup {Missing},
                y \in Styles : Parse(t, "range", s, e, <<>>, y)

ParseMalformed ==
    Idle /\ \E t \in Totals, raw \in Malformed, y \in Styles : Parse(t, "raw", 0, 0, raw, y)

\* the caller takes the page list or the ValueError; the next call may start
ReturnPages ==
    /\ pr # NoParse
    /\ pr' = NoParse
    /\ UNCHANGED <<fs, locked, phase, SEARCH_DIRECTORIES, MAX_FILE_SIZE, pc, last, prev, hl,
                   tx, an, handles, tools_MAX_FILE_SIZE, mn>>

InitPages == PathInit /\ pr = NoParse /\ hl = NoHighlights /\ tx = NoTextCall /\ NoBackend

NextPages ==
    \/ ParseNone
    \/ ParseKeyword
    \/ ParseSingle
    \/ ParseRange
    \/ ParseMalformed
    \/ ReturnPages

SpecPages == InitPages /\ [][NextPages]_vars

(***************************************************************************)
(* Claims about the page range parser.                                     *)
(***************************************************************************)
\* the rules of the page range parser, on the request as the caller meant it
Reference(total, shape, s, e) ==
    IF total <= 0 THEN Pages(<<>>)
    ELSE CASE shape = "None" -> Pages([i \in 1..total |-> i - 1])
           [] shape = "first" -> Pages(<<0>>)
           [] shape = "last" -> Pages(<<total - 1>>)
           [] shape = "single" ->
                IF 1 <= s /\ s <= total THEN Pages(<<s - 1>>) ELSE ValueError
           [] shape = "range" ->
                LET S == IF s = Missing THEN 1 ELSE s
                    E == IF e = Missing THEN total ELSE e
                    last_ == IF E < total THEN E ELSE total
                IN IF S < 1 \/ E < 1 \/ S > total THEN ValueError
                   ELSE Pages([i \in 1..(IF last_ >= S THEN last_ - S + 1 ELSE 0) |-> S + i - 2])
           [] OTHER -> ValueError

\* C8: parse_page_range agrees with the reference rules for every page count
\* and every specification of the bounded set.
C8_AgreesWithRules ==
    pr.res # "none" =>
        [res |-> pr.res, pages |-> pr.pages] = Reference(pr.total, pr.shape, pr.s, pr.e)

\* C8 witness: total 10 and "5-100" gave the pages 4..9, the end clamped.
C8_Witness ==
    /\ pr.total = 10
    /\ pr.spec = <<"5", "-", "1", "0", "0">>
    /\ pr.res = "ok"
    /\ pr.pages = <<4, 5, 6, 7, 8, 9>>

\* C9 as claimed: with at least one page, a call that does not fail returns
\* at least one page index.
C9_NeverEmpty ==
    (pr.res = "ok" /\ pr.total >= 1) => pr.pages # <<>>

(***************************************************************************)
(* core/bbox.py: coordinate helpers and the text of a box.  Coordinates    *)
(* are integers; a text is the sequence of its words and of the blanks     *)
(* between them, each word standing for its characters.                    *)
(***************************************************************************)
PAD == 1
LINE_TOL == 3

\* the blank that " ".join puts between two texts
BLANK == " "

Abs(x) == IF x < 0 THEN 0 - x ELSE x

MinOf(S) == CHOOSE x \in S : \A y \in S : x <= y

MaxOf(S) == CHOOSE x \in S : \A y \in S : x >= y

\* a union that keeps the first box only
union_boxes_First(boxes) == boxes[1]

\* a conversion that keeps the page's upward Y axis
pypdf_to_plumber_y_NoFlip(page_height, y_pdf) == y_pdf

pypdf_to_plumber_y(page_height, y_pdf) == page_height - y_pdf

union_boxes(boxes) ==
    << MinOf({boxes[i][1] : i \in 1..Len(boxes)}),
       MinOf({boxes[i][2] : i \in 1..Len(boxes)}),
       MaxOf({boxes[i][3] : i \in 1..Len(boxes)}),
       MaxOf({boxes[i][4] : i \in 1..Len(boxes)}) >>

_intersects(bbox, w) ==
    ~(w.x1 <= bbox[1] \/ w.x0 >= bbox[3] \/ w.bottom <= bbox[2] \/ w.top >= bbox[4])

_words_in_bbox(bbox, words) == SelectSeq(words, LAMBDA w : _intersects(bbox, w))

\* a sort key of x0 only
KeyLeq_XOnly(a, b) == a.x0 <= b.x0

\* the sort key (w["top"], w["x0"])
KeyLeq(a, b) == a.top < b.top \/ (a.top = b.top /\ a.x0 <= b.x0)

RECURSIVE InsertWord(_, _)
InsertWord(sorted, w) ==
    IF sorted = <<>> THEN <<w>>
    ELSE IF KeyLeq(sorted[1], w) THEN <<sorted[1]>> \o InsertWord(Tail(sorted), w)
    ELSE <<w>> \o sorted

\* list.sort(key=...): stable
RECURSIVE SortWords(_, _)
SortWords(ws, acc) ==
    IF ws = <<>> THEN acc ELSE SortWords(Tail(ws), InsertWord(acc, Head(ws)))

RECURSIVE GroupLines(_, _)
GroupLines(ws, lines) ==
    IF ws = <<>> THEN lines
    ELSE LET w == Head(ws) IN
         IF lines = <<>> THEN GroupLines(Tail(ws), << <<w>> >>)
         ELSE LET last_ == lines[Len(lines)] IN
              IF Abs(w.top - last_[Len(last_)].top) <= LINE_TOL
              THEN GroupLines(Tail(ws), [lines EXCEPT ![Len(lines)] = Append(last_, w)])
              ELSE GroupLines(Tail(ws), Append(lines, <<w>>))

\* str.strip() of a text
RECURSIVE StripBlanks(_)
StripBlanks(text) ==
    IF text = <<>> THEN <<>>
    ELSE IF Head(text) = BLANK THEN StripBlanks(Tail(text))
    ELSE IF text[Len(text)] = BLANK THEN StripBlanks(SubSeq(text, 1, Len(text) - 1))
    ELSE text

\* line_texts, and the join of the stripped ones that are not empty
JoinLines(lines) ==
    LET line_texts == [l \in 1..Len(lines) |->
                          JoinWith([i \in 1..Len(lines[l]) |-> <<lines[l][i].text>>], BLANK)]
        stripped == [l \in 1..Len(lines) |-> StripBlanks(line_texts[l])]
    IN JoinWith(SelectSeq(stripped, LAMBDA t : t # <<>>), BLANK)

_text_from_words_grouped(bbox, words) ==
    LET inside == _words_in_bbox(bbox, words)
    IN IF inside = <<>> THEN <<>>
       ELSE JoinLines(GroupLines(SortWords(inside, <<>>), <<>>))

LayoutText == <<"layout">>

\* an exception that leaves extract_text_from_bbox
RaisedText == <<"raise", "Exception">>

\* without the try: the exception of the crop leaves the function
extract_text_from_bbox_NoTry(pl_page, bbox, primary) ==
    IF primary = "raise" THEN RaisedText
    ELSE IF primary = "text" THEN LayoutText
    ELSE IF primary = "blank" THEN <<>>
    ELSE _text_from_words_grouped(
             <<Max(bbox[1] - PAD, 0), Max(bbox[2] - PAD, 0), bbox[3] + PAD, bbox[4] + PAD>>,
             pl_page.words)

\* what page.within_bbox(...).extract_text() may do: raise, give nothing,
\* give blank text, give text
PrimaryOutcomes == {"raise", "empty", "blank", "text"}

extract_text_from_bbox(pl_page, bbox, primary) ==
    LET x0 == Max(bbox[1] - PAD, 0)
        top == Max(bbox[2] - PAD, 0)
        x1 == bbox[3] + PAD
        bottom == bbox[4] + PAD
    IN IF primary = "text" THEN LayoutText
       ELSE IF primary = "blank" THEN <<>>
       ELSE _text_from_words_grouped(<<x0, top, x1, bottom>>, pl_page.words)

(***************************************************************************)
(* backends/pdfplumber_backend.py: extract_highlights_with_context         *)
(***************************************************************************)
\* str(obj.get("/Subtype", "")).lstrip("/").lower()
SubtypeLower(subtype) ==
    CASE subtype = "/Highlight" -> "highlight"
      [] subtype = "/Text" -> "text"
      [] OTHER -> subtype

\* the loop over the groups of 8 numbers; i is the 0-based index of the group
RECURSIVE QuadBoxes(_, _, _, _)
QuadBoxes(quads, i, page_h, acc) ==
    IF i >= Len(quads) THEN [ok |-> TRUE, boxes |-> acc]
    ELSE IF i + 7 >= Len(quads) THEN [ok |-> FALSE, boxes |-> acc]    \* IndexError
    ELSE LET xs == {quads[i + 1], quads[i + 3], quads[i + 5], quads[i + 7]}
             ys_pl == {pypdf_to_plumber_y(page_h, quads[i + k]) : k \in {2, 4, 6, 8}}
         IN QuadBoxes(quads, i + 8, page_h,
                      Append(acc, <<MinOf(xs), MinOf(ys_pl), MaxOf(xs), MaxOf(ys_pl)>>))

RectBox(rect, page_h) ==
    LET x0 == Min(rect[1], rect[3])
        x1 == Max(rect[1], rect[3])
        y0 == Min(rect[2], rect[4])
        y1 == Max(rect[2], rect[4])
    IN <<x0, pypdf_to_plumber_y(page_h, y1), x1, pypdf_to_plumber_y(page_h, y0)>>

\* the boxes of one highlight; an absent /QuadPoints or /Rect is <<>>
Bboxes(obj, page_h) ==
    IF Len(obj.quads) >= 8 THEN QuadBoxes(obj.quads, 0, page_h, <<>>)
    ELSE IF Len(obj.rect) >= 4 THEN [ok |-> TRUE, boxes |-> <<RectBox(obj.rect, page_h)>>]
    ELSE [ok |-> TRUE, boxes |-> <<>>]

\* the text of the union of the boxes, taken once
Spans_Union(pl_page, bboxes, k, primary) ==
    LET Kept(t) == IF t = <<>> THEN <<>> ELSE <<t>>
    IN Kept(extract_text_from_bbox(pl_page, union_boxes(bboxes), primary[1]))

\* the list spans: the texts of the boxes from the k-th on that are not
\* empty; primary[k] is what the layout backend does for box k
RECURSIVE Spans(_, _, _, _)
Spans(pl_page, bboxes, k, primary) ==
    IF k > Len(bboxes) THEN <<>>
    ELSE LET Kept(t) == IF t = <<>> THEN <<>> ELSE <<t>>
         IN Kept(extract_text_from_bbox(pl_page, bboxes[k], primary[k]))
                \o Spans(pl_page, bboxes, k + 1, primary)


\* the loop over pypdf_page["/Annots"]; acc.boxes collects the boxes computed,
\* acc.unions the lists union_boxes was called with, and acc.of, for every
\* record of acc.out, the list of boxes of its highlight
RECURSIVE ScanAnnots(_, _, _, _, _, _)
ScanAnnots(pl_page, page_index, k, drop_empty, primary, acc) ==
    IF k > Len(pl_page.annots) THEN acc
    ELSE LET obj == pl_page.annots[k] IN
         IF SubtypeLower(obj.subtype) # "highlight"
         THEN ScanAnnots(pl_page, page_index, k + 1, drop_empty, primary, acc)
         ELSE LET b == Bboxes(obj, pl_page.height)
                  seen == [acc EXCEPT !.boxes = IF b.boxes = <<>> THEN @ ELSE Append(@, b.boxes)]
              IN IF ~b.ok THEN [seen EXCEPT !.res = "IndexError", !.out = <<>>, !.of = <<>>]
                 ELSE IF b.boxes = <<>>
                 THEN ScanAnnots(pl_page, page_index, k + 1, drop_empty, primary, acc)
                 ELSE LET item == [page |-> page_index + 1,
                                   author |-> obj.author,
                                   highlighted_text |->
                                       StripBlanks(JoinWith(Spans(pl_page, b.boxes, 1, primary), BLANK)),
                                   note |-> obj.note,
                                   position |-> union_boxes(b.boxes)]
                          called == [seen EXCEPT !.unions = Append(@, b.boxes)]
                      IN IF drop_empty /\ item.highlighted_text = <<>> /\ item.note = ""
                         THEN ScanAnnots(pl_page, page_index, k + 1, drop_empty, primary, called)
                         ELSE ScanAnnots(pl_page, page_index, k + 1, drop_empty, primary,
                                         [called EXCEPT !.out = Append(@, item),
                                                        !.of = Append(@, b.boxes)])

\* len(reader.pages): the pages the structural reader finds in the file, which
\* it counts by itself; a document that does not say has as many as
\* pdf.pages of the layout backend
ReaderCount(doc) ==
    IF "reader_pages" \in DOMAIN doc THEN doc.reader_pages ELSE Len(doc.pages)

\* the loop over the page indices; acc.read are the indices handed to
\* reader.pages
RECURSIVE ScanPages(_, _, _, _, _, _)
ScanPages(doc, idxs, n, drop_empty, primary, acc) ==
    IF n > Len(idxs) \/ acc.res # "ok" THEN acc
    ELSE IF idxs[n] >= ReaderCount(doc)
    THEN [acc EXCEPT !.res = "IndexError", !.out = <<>>, !.of = <<>>,
                     !.read = Append(@, idxs[n])]
    ELSE ScanPages(doc, idxs, n + 1, drop_empty, primary,
                   ScanAnnots(doc.pages[idxs[n] + 1], idxs[n], 1, drop_empty, primary,
                              [acc EXCEPT !.read = Append(@, idxs[n])]))

extract_highlights_with_context(doc, page_range, is_none, drop_empty, primary) ==
    LET total == Len(doc.pages)
        idxs == parse_page_range(total, page_range, is_none)
    IN IF idxs.res # "ok"
       THEN [res |-> "ValueError", boxes |-> <<>>, unions |-> <<>>, of |-> <<>>, out |-> <<>>,
     read |-> <<>>]
       ELSE ScanPages(doc, idxs.pages, 1, drop_empty, primary,
                      [res |-> "ok", boxes |-> <<>>, unions |-> <<>>, of |-> <<>>, out |-> <<>>,
     read |-> <<>>])

(***************************************************************************)
(* The file handles of a backend call.  A fault is the step of the call    *)
(* that the library fails at: open(pdf_path), PyPDF2.PdfReader(f) or       *)
(* pdfplumber.open(pdf_path); "none" lets the call reach the pages.        *)
(***************************************************************************)
Faults == {"none", "open", "PdfReader", "pdfplumber.open"}

\* a with statement that closes only when its body ends without exception
with_exit_OnSuccess(res, handle, open) == IF res = "ok" THEN open \ {handle} ELSE open

\* the end of a with statement: the handle is closed however the body ends
with_exit(res, handle, open) == open \ {handle}

\* pdfplumber_backend.extract_highlights_with_context as the tools import
\* it: the two with statements around the pages, and the handles left open
backend_extract_highlights(doc, page_range, is_none, drop_empty, primary, fault, open) ==
    LET Failure(res) ==
            [res |-> res, boxes |-> <<>>, unions |-> <<>>, of |-> <<>>, out |-> <<>>,
             read |-> <<>>]
        WithPdf(r, in_pdf) ==
            [res |-> r.res, boxes |-> r.boxes, unions |-> r.unions, of |-> r.of, out |-> r.out,
             read |-> r.read,
             open |-> with_exit(r.res, "f", with_exit(r.res, "pdf", in_pdf))]
        WithF(r, in_f) ==
            [res |-> r.res, boxes |-> r.boxes, unions |-> r.unions, of |-> r.of, out |-> r.out,
             read |-> r.read,
             open |-> with_exit(r.res, "f", in_f)]
    IN IF fault = "open"
       THEN [res |-> "OSError", boxes |-> <<>>, unions |-> <<>>, of |-> <<>>, out |-> <<>>,
             read |-> <<>>, open |-> open]
       ELSE IF fault \in {"PdfReader", "pdfplumber.open"}
       THEN WithF(Failure("Exception"), open \cup {"f"})
       ELSE WithPdf(extract_highlights_with_context(doc, page_range, is_none, drop_empty,
                                                    primary),
                    open \cup {"f", "pdf"})

(***************************************************************************)
(* backends/pypdf2_backend.py: extract_annotations.  An annotation object  *)
(* is the record of its entries, "" for an entry it does not have; broken  *)
(* marks a reference that get_object cannot resolve.                       *)
(***************************************************************************)
\* a or b, of two str
Or(a, b) == IF a # "" THEN a ELSE b

\* s.lstrip(c)
RECURSIVE LStrip(_, _)
LStrip(s, c) == IF Len(s) > 0 /\ s[1] = c THEN LStrip(Tail(s), c) ELSE s

\* s.capitalize()
Capitalize(s) == IF s = <<>> THEN <<>> ELSE Upper(<<s[1]>>) \o Lower(Tail(s))

\* not (include_types and subtype not in include_types)
Included(include_types, subtype) == include_types = {} \/ subtype \in include_types

\* a drop test that ignores drop_empty
Dropped_Ignored(drop_empty, item) == FALSE

\* drop_empty and not item["content"] and not item["author"]
Dropped(drop_empty, item) == drop_empty /\ item.content = "" /\ item.author = ""

\* the loop over page["/Annots"]
RECURSIVE ScanObjects(_, _, _, _, _, _)
ScanObjects(page, page_index, k, include_types, drop_empty, acc) ==
    IF k > Len(page.annots) THEN acc
    ELSE LET obj == page.annots[k] IN
         IF obj.broken THEN [res |-> "Exception", items |-> <<>>]
         ELSE LET subtype == Lower(LStrip(obj.subtype, "/"))
                  item == [page |-> page_index + 1,
                           type |-> <<"/">> \o Capitalize(subtype),
                           content |-> Or(Or(Or(obj.Contents, obj.RC), obj.Popup), ""),
                           author |-> Or(Or(obj.T, obj.Title), ""),
                           position |-> obj.rect]
              IN IF ~Included(include_types, subtype) \/ Dropped(drop_empty, item)
                 THEN ScanObjects(page, page_index, k + 1, include_types, drop_empty, acc)
                 ELSE ScanObjects(page, page_index, k + 1, include_types, drop_empty,
                                  [acc EXCEPT !.items = Append(@, item)])

\* the loop over the page indices
RECURSIVE ScanObjectPages(_, _, _, _, _, _)
ScanObjectPages(doc, idxs, n, include_types, drop_empty, acc) ==
    IF n > Len(idxs) \/ acc.res # "ok" THEN acc
    ELSE ScanObjectPages(doc, idxs, n + 1, include_types, drop_empty,
                         ScanObjects(doc.pages[idxs[n] + 1], idxs[n], 1, include_types,
                                     drop_empty, acc))

\* extract_annotations with its with statement, and the handles left open
extract_annotations(doc, page_range, is_none, include_types, drop_empty, fault, open) ==
    LET WithF(r, in_f) ==
            [res |-> r.res, items |-> r.items, open |-> with_exit(r.res, "f", in_f)]
        Body(idxs) ==
            IF idxs.res # "ok" THEN [res |-> "ValueError", items |-> <<>>]
            ELSE ScanObjectPages(doc, idxs.pages, 1, include_types, drop_empty,
                                 [res |-> "ok", items |-> <<>>])
    IN IF fault = "open" THEN [res |-> "OSError", items |-> <<>>, open |-> open]
       ELSE IF fault = "PdfReader"
       THEN WithF([res |-> "Exception", items |-> <<>>], open \cup {"f"})
       ELSE WithF(Body(parse_page_range(Len(doc.pages), page_range, is_none)),
                  open \cup {"f"})

(***************************************************************************)
(* SpecHighlights: extract_highlights_with_context is called on bounded    *)
(* documents: every quad and every rectangle over the coordinates, and a   *)
(* few documents with several groups, annotations and pages.               *)
(***************************************************************************)
MaxCoord == 1        \* PDF coordinates are 0..MaxCoord
MaxHeight == 2       \* page heights are 1..MaxHeight
MaxGroups == 2       \* quad groups per highlight

Coords == 0..MaxCoord
PageHeights == 1..MaxHeight
Corners == [1..4 -> Coords]

\* the words the layout backend finds on every page
PageWords ==
    << [text |-> "w2", x0 |-> 1, x1 |-> 2, top |-> 0, bottom |-> 1],
       [text |-> "w1", x0 |-> 0, x1 |-> 1, top |-> 0, bottom |-> 1] >>

Highlight(quads, rect, note) ==
    [subtype |-> "/Highlight", quads |-> quads, rect |-> rect, note |-> note, author |-> "au"]

Page(height, annots) == [height |-> height, words |-> PageWords, annots |-> annots]

OnePage(height, obj) == [pages |-> <<Page(height, <<obj>>)>>]

QuadOf(xs, ys) == <<xs[1], ys[1], xs[2], ys[2], xs[3], ys[3], xs[4], ys[4]>>

G_a == <<0, 1, 1, 1, 0, 0, 1, 0>>
G_b == <<1, 0, 0, 1, 1, 1, 0, 0>>
G_c == <<1, 0, 2, 0, 1, 1, 2, 1>>

FewAnnots ==
    { Highlight(G_a \o G_b, <<>>, ""),
      Highlight(G_a \o G_c, <<>>, ""),
      Highlight(G_a \o <<0, 0, 1, 1>>, <<0, 0, 1, 1>>, ""),
      Highlight(<<0, 0, 1, 1>>, <<1, 1, 0, 0>>, "n"),
      Highlight(<<>>, <<>>, "n"),
      Highlight(<<>>, <<0, 0, 0, 0>>, ""),
      [subtype |-> "/Text", quads |-> <<>>, rect |-> <<0, 0, 1, 1>>, note |-> "n",
       author |-> "au"] }

FewDocs ==
    { [pages |-> <<Page(h, <<>>)>>] : h \in PageHeights }
    \cup { [pages |-> <<Page(h, <<a, b>>)>>] : h \in PageHeights, a \in FewAnnots, b \in FewAnnots }
    \cup { [pages |-> <<Page(h, <<a>>), Page(h, <<b>>)>>] :
             h \in PageHeights, a \in FewAnnots, b \in FewAnnots }

PageRanges == { <<"1">>, <<"2">>, <<"3">>, W_last }

Primaries == [1..MaxGroups -> PrimaryOutcomes]

CallBackendHighlights(doc, page_range, is_none, drop_empty, primary, fault) ==
    LET Done(r) ==
            /\ hl' = [res |-> r.res, doc |-> doc,
                      page_range |-> IF is_none THEN NoneSpec ELSE page_range,
                      drop_empty |-> drop_empty, primary |-> primary, boxes |-> r.boxes,
                      unions |-> r.unions, of |-> r.of, out |-> r.out,
                      read |-> r.read]
            /\ handles' = r.open
    IN /\ Done(backend_extract_highlights(doc, page_range, is_none, drop_empty, primary,
                                          fault, handles))
       /\ UNCHANGED <<fs, locked, phase, SEARCH_DIRECTORIES, MAX_FILE_SIZE, pc, last, prev,
                      pr, tx, an, tools_MAX_FILE_SIZE, mn>>

CallHighlights(doc, page_range, is_none, drop_empty, primary) ==
    CallBackendHighlights(doc, page_range, is_none, drop_empty, primary, "none")

Same(p) == [k \in 1..MaxGroups |-> p]

\* a highlight with one group of quad points, its corners in any order
HighlightQuad ==
    Idle /\ \E xs \in Corners, ys \in Corners, h \in PageHeights, d \in BOOLEAN,
                p \in PrimaryOutcomes :
                CallHighlights(OnePage(h, Highlight(QuadOf(xs, ys), <<>>, "")), <<>>, TRUE,
                               d, Same(p))

\* a highlight without quad points, its /Rect in any orientation
HighlightRect ==
    Idle /\ \E rect \in Corners, h \in PageHeights, d \in BOOLEAN, p \in PrimaryOutcomes :
                CallHighlights(OnePage(h, Highlight(<<>>, rect, "")), <<>>, TRUE, d, Same(p))

\* documents with several groups, annotations and pages
HighlightDoc ==
    Idle /\ \E doc \in FewDocs, r \in PageRanges, d \in BOOLEAN, p \in Primaries :
                CallHighlights(doc, r, FALSE, d, p)

\* a file in which the structural reader finds fewer or more pages than the
\* layout backend; the libraries read the page tree independently
MaxReaderPages == 3   \* the structural reader finds 0..MaxReaderPages pages

ReaderCounts == 0..MaxReaderPages

HighlightMismatch ==
    Idle /\ \E h \in PageHeights, n \in ReaderCounts, r \in PageRanges \cup {NoneSpec},
                d \in BOOLEAN, p \in PrimaryOutcomes,
                a \in {Highlight(G_a, <<>>, ""), Highlight(<<>>, <<0, 0, 1, 1>>, "n")} :
                CallHighlights([pages |-> <<Page(h, <<a>>), Page(h, <<a>>)>>,
                                reader_pages |-> n],
                               r, r = NoneSpec, d, Same(p))

\* a page of MaxLines lines of one word each, ten units apart, and a
\* highlight with one quad group per line, listed downwards or upwards
MaxLines == 3

LineTexts == <<"L1", "L2", "L3", "L4", "L5">>

LineWords ==
    [i \in 1..MaxLines |->
        [text |-> LineTexts[i], x0 |-> 0, x1 |-> 10, top |-> 10 * (i - 1),
         bottom |-> 10 * (i - 1) + 4]]

LinesHeight == 10 * MaxLines

\* the quad points of line i, in PDF coordinates
LineQuad(i) ==
    LET y_top == LinesHeight - 10 * (i - 1)
        y_bottom == y_top - 4
    IN <<0, y_top, 10, y_top, 0, y_bottom, 10, y_bottom>>

LinesDoc(n, rev, note) ==
    LET line == [k \in 1..n |-> IF rev THEN n + 1 - k ELSE k]
        quads == [j \in 1..(8 * n) |-> LineQuad(line[((j - 1) \div 8) + 1])[((j - 1) % 8) + 1]]
    IN [pages |-> << [height |-> LinesHeight, words |-> LineWords,
                      annots |-> <<Highlight(quads, <<>>, note)>>] >>]

HighlightLines ==
    Idle /\ \E n \in 1..MaxLines, rev \in BOOLEAN, note \in {"", "n"}, d \in BOOLEAN :
                \E p \in [1..n -> PrimaryOutcomes] :
                    CallHighlights(LinesDoc(n, rev, note), <<>>, TRUE, d, p)

\* the caller takes the records or the exception; the next call may start
ReturnHighlights ==
    /\ hl # NoHighlights
    /\ hl' = NoHighlights
    /\ UNCHANGED <<fs, locked, phase, SEARCH_DIRECTORIES, MAX_FILE_SIZE, pc, last, prev, pr,
                   tx, an, handles, tools_MAX_FILE_SIZE, mn>>

InitHighlights == PathInit /\ pr = NoParse /\ hl = NoHighlights /\ tx = NoTextCall /\ NoBackend

NextHighlights ==
    \/ HighlightQuad
    \/ HighlightRect
    \/ HighlightDoc
    \/ HighlightLines
    \/ HighlightMismatch
    \/ ReturnHighlights

SpecHighlights == InitHighlights /\ [][NextHighlights]_vars

(***************************************************************************)
(* Claims about the highlight geometry.                                    *)
(***************************************************************************)
Ordered(b) == b[1] <= b[3] /\ b[2] <= b[4]

\* C10: every per-quad or per-rectangle box computed by
\* extract_highlights_with_context, and the position of every returned
\* record, has x0 <= x1 and top <= bottom, whatever the order of the quad
\* corners and the orientation of the /Rect.
C10_BoxesOrdered ==
    /\ \A i \in 1..Len(hl.boxes) : \A j \in 1..Len(hl.boxes[i]) : Ordered(hl.boxes[i][j])
    /\ \A k \in 1..Len(hl.out) : Ordered(hl.out[k].position)

\* C10 witness: a highlight whose /Rect was given from its upper right to its
\* lower left corner was returned with a box of positive width and height.
C10_Witness ==
    /\ hl.res = "ok"
    /\ Len(hl.doc.pages) = 1
    /\ Len(hl.doc.pages[1].annots) = 1
    /\ hl.doc.pages[1].annots[1].quads = <<>>
    /\ hl.doc.pages[1].annots[1].rect = <<1, 1, 0, 0>>
    /\ Len(hl.out) = 1
    /\ hl.out[1].position[1] < hl.out[1].position[3]
    /\ hl.out[1].position[2] < hl.out[1].position[4]

(***************************************************************************)
(* Claims about the records of extract_highlights_with_context.            *)
(***************************************************************************)
\* p is the smallest box containing every box of bs
IsUnionOf(p, bs) ==
    /\ \A j \in 1..Len(bs) :
          p[1] <= bs[j][1] /\ p[2] <= bs[j][2] /\ p[3] >= bs[j][3] /\ p[4] >= bs[j][4]
    /\ \A c \in 1..4 : \E j \in 1..Len(bs) : p[c] = bs[j][c]

\* C11: the position of every record returned by
\* extract_highlights_with_context is the componentwise union of the boxes
\* of its highlight (the least x0 and top, the greatest x1 and bottom), so it
\* contains each of them, and union_boxes is never called with an empty list.
C11_PositionIsUnion ==
    /\ Len(hl.of) = Len(hl.out)
    /\ \A k \in 1..Len(hl.out) : IsUnionOf(hl.out[k].position, hl.of[k])
    /\ \A i \in 1..Len(hl.unions) : hl.unions[i] # <<>>

\* C11 witness: a highlight with two quad groups side by side was returned,
\* and its position is wider than either of its two boxes.
C11_Witness ==
    /\ hl.res = "ok"
    /\ Len(hl.out) >= 1
    /\ Len(hl.of[1]) = 2
    /\ hl.of[1][1] # hl.of[1][2]
    /\ hl.out[1].position # hl.of[1][1]
    /\ hl.out[1].position # hl.of[1][2]

\* the call was made on a page of lines
OnLines ==
    /\ hl.res = "ok"
    /\ Len(hl.doc.pages) = 1
    /\ hl.doc.pages[1].words = LineWords
    /\ Len(hl.doc.pages[1].annots) = 1

\* the number of quad groups of the highlight, and the line of the k-th
Groups == Len(hl.doc.pages[1].annots[1].quads) \div 8

LineOf(k) == ((LinesHeight - hl.doc.pages[1].annots[1].quads[8 * (k - 1) + 2]) \div 10) + 1

\* the text correlated for the k-th quad group: none, the crop's, or the word
\* of its line
QuadText(k) ==
    CASE hl.primary[k] = "blank" -> <<>>
      [] hl.primary[k] = "text" -> <<"layout">>
      [] OTHER -> <<LineTexts[LineOf(k)]>>

\* the quad groups that yield text, in the order they are listed
Yielding == SelectSeq([k \in 1..Groups |-> k], LAMBDA k : QuadText(k) # <<>>)

\* text is the texts of the yielding quads in their order, one blank between
JoinedInOrder(text) ==
    /\ Len(text) = IF Yielding = <<>> THEN 0 ELSE 2 * Len(Yielding) - 1
    /\ \A j \in 1..Len(Yielding) : text[2 * j - 1] = QuadText(Yielding[j])[1]
    /\ \A j \in 1..(Len(Yielding) - 1) : text[2 * j] = BLANK

DroppedAsEmpty ==
    hl.drop_empty /\ Yielding = <<>> /\ hl.doc.pages[1].annots[1].note = ""

\* C15 as stated: a highlight with k quad groups yields exactly one record,
\* whose highlighted_text is the texts correlated for each quad, in the order
\* the quads are listed, joined by single blanks, a quad without text adding
\* nothing.
C15_OneRecordPerHighlight ==
    OnLines => Len(hl.out) = 1 /\ JoinedInOrder(hl.out[1].highlighted_text)

\* C15 as amended: a highlight with k quad groups yields no record when
\* drop_empty is set and it has neither text nor note, and exactly one
\* record otherwise, whose highlighted_text is the texts correlated for each
\* quad, in the order the quads are listed, joined by single blanks, a quad
\* without text adding nothing.
C15_OneRecordUnlessDropped ==
    OnLines =>
        IF DroppedAsEmpty THEN hl.out = <<>>
        ELSE Len(hl.out) = 1 /\ JoinedInOrder(hl.out[1].highlighted_text)

\* C15 witness: three quads listed upwards, the middle one without text:
\* one record with the text of the third line, one blank, the text of the first.
C15_Witness ==
    /\ OnLines
    /\ Groups = 3
    /\ LineOf(1) = 3
    /\ hl.primary = <<"empty", "blank", "raise">>
    /\ Len(hl.out) = 1
    /\ hl.out[1].highlighted_text = <<"L3", BLANK, "L1">>
    /\ hl.out[1].position = <<0, 0, 10, 24>>

(***************************************************************************)
(* Claims about the pages and the quad points read by                      *)
(* extract_highlights_with_context.                                        *)
(***************************************************************************)
\* C27: every page index that extract_highlights_with_context hands to the
\* page list of the structural reader is smaller than the page count of
\* that reader, also when the layout backend, from whose page count the
\* indices are computed, counts the pages differently.
C27_ReaderIndexInRange ==
    \A n \in 1..Len(hl.read) : hl.read[n] < ReaderCount(hl.doc)

\* C27 where both libraries count the same pages
C27_AgreeingInRange ==
    (hl.res # "none" /\ ReaderCount(hl.doc) = Len(hl.doc.pages)) =>
        \A n \in 1..Len(hl.read) : hl.read[n] < ReaderCount(hl.doc)

\* the highlights of a page that have quad points or a /Rect
Boxed(annots) ==
    SelectSeq(annots, LAMBDA o : /\ SubtypeLower(o.subtype) = "highlight"
                                 /\ (Len(o.quads) >= 8 \/ Len(o.rect) >= 4))

\* C28: for a highlight whose quad point list has at least 8 entries,
\* extract_highlights_with_context builds floor(len / 8) boxes, one per
\* complete group of 8 numbers, and a trailing incomplete group does not
\* make the call fail.
C28_QuadGroups ==
    (hl.res \in {"ok", "IndexError"} /\ Len(hl.doc.pages) = 1 /\ ReaderCount(hl.doc) = 1) =>
        /\ hl.res = "ok"
        /\ Len(hl.boxes) = Len(Boxed(hl.doc.pages[1].annots))
        /\ \A i \in 1..Len(hl.boxes) :
              Len(Boxed(hl.doc.pages[1].annots)[i].quads) >= 8 =>
                  Len(hl.boxes[i]) = Len(Boxed(hl.doc.pages[1].annots)[i].quads) \div 8

\* C28 for lists that are whole groups of 8 numbers
C28_WholeGroups ==
    (hl.res \in {"ok", "IndexError"} /\ Len(hl.doc.pages) = 1 /\ ReaderCount(hl.doc) = 1
     /\ \A k \in 1..Len(hl.doc.pages[1].annots) :
            Len(hl.doc.pages[1].annots[k].quads) % 8 = 0) =>
        /\ hl.res = "ok"
        /\ Len(hl.boxes) = Len(Boxed(hl.doc.pages[1].annots))
        /\ \A i \in 1..Len(hl.boxes) :
              Len(Boxed(hl.doc.pages[1].annots)[i].quads) >= 8 =>
                  Len(hl.boxes[i]) = Len(Boxed(hl.doc.pages[1].annots)[i].quads) \div 8

\* a highlight of two whole groups gave two boxes
C28_TwoGroups ==
    /\ hl.res = "ok"
    /\ Len(hl.doc.pages) = 1
    /\ Len(hl.boxes) >= 1
    /\ Len(hl.doc.pages[1].annots[1].quads) = 16
    /\ Len(hl.boxes[1]) = 2

(***************************************************************************)
(* tools/mcp_tools.py: the tools from the point where find_file has given  *)
(* them a path.  The answer of a tool is "json", "message" (a text that    *)
(* describes why there is no result) or "raise".                           *)
(***************************************************************************)
\* {t.strip().lstrip("/").lower() for t in include_types.split(",") if t.strip()}
ParseTypes(include_types) ==
    LET parts == SplitOn(include_types, ",")
    IN {Lower(LStrip(Strip(parts[i]), "/")) : i \in {k \in 1..Len(parts) : Strip(parts[k]) # <<>>}}

\* a tool body in try/except that answers "Error: ..." for an exception
Caught(res) == IF res = "ok" THEN "json" ELSE "message"

\* a tool body without try/except: the exception of the backend leaves it
Uncaught(res) == IF res = "ok" THEN "json" ELSE "raise"

\* extract_annotations: the types are parsed and the backend is called
tool_extract_annotations(doc, page_range, is_none, include_types, drop_empty, fault, open) ==
    LET Answered(r) ==
            [res |-> r.res, items |-> r.items, open |-> r.open, answer |-> Uncaught(r.res)]
    IN Answered(extract_annotations(doc, page_range, is_none, ParseTypes(include_types),
                                    drop_empty, fault, open))

\* extract_highlights_with_context: the backend is called; no record gives
\* the message "No highlights (with text) found in ..."
tool_extract_highlights(doc, page_range, is_none, drop_empty, primary, fault, open) ==
    LET Answered(r) ==
            [res |-> r.res, items |-> r.out, open |-> r.open,
             answer |-> IF r.res = "ok" /\ r.out = <<>> THEN "message" ELSE Uncaught(r.res)]
    IN Answered(backend_extract_highlights(doc, page_range, is_none, drop_empty, primary,
                                           fault, open))

\* read_pdf_text: pdfplumber.open, parse_page_range and the texts of the
\* pages, all in one try; items are the page numbers read
read_pdf_text(doc, page_range, is_none, fault, open) ==
    LET WithPdf(r, in_pdf) ==
            [res |-> r.res, items |-> r.items, open |-> with_exit(r.res, "pdf", in_pdf),
             answer |-> Caught(r.res)]
        Body(idxs) ==
            IF idxs.res # "ok" THEN [res |-> "ValueError", items |-> <<>>]
            ELSE [res |-> "ok", items |-> [i \in 1..Len(idxs.pages) |-> idxs.pages[i] + 1]]
    IN IF fault = "pdfplumber.open"
       THEN [res |-> "Exception", items |-> <<>>, open |-> open, answer |-> Caught("Exception")]
       ELSE WithPdf(Body(parse_page_range(Len(doc.pages), page_range, is_none)),
                    open \cup {"pdf"})

(***************************************************************************)
(* SpecBackends: the two backends and the tools that read pages are called *)
(* on bounded documents, with every fault of the libraries.                *)
(***************************************************************************)
Object(subtype, Contents, RC, Popup, T, Title) ==
    [subtype |-> subtype, Contents |-> Contents, RC |-> RC, Popup |-> Popup, T |-> T,
     Title |-> Title, rect |-> <<0, 0, 1, 1>>, broken |-> FALSE]

T_al == <<"/", "A", "l">>
T_st == <<"/", "S", "t">>
T_la == <<"/", "L", "a">>

FewObjects ==
    { Object(T_al, "c", "", "", "au", ""),
      Object(T_al, "", "rc", "", "", ""),
      Object(T_st, "", "", "pop", "", "ti"),
      Object(<<"/", "A", "L">>, "", "", "", "", ""),
      Object(T_la, "", "", "", "au", ""),
      Object(T_la, "", "", "", "", ""),
      Object(<<>>, "c", "", "", "", ""),
      [Object(T_al, "c", "", "", "", "") EXCEPT !.broken = TRUE] }

ObjectDocs ==
    { [pages |-> << [annots |-> <<>>] >>] }
    \cup { [pages |-> << [annots |-> <<a, b>>] >>] : a \in FewObjects, b \in FewObjects }
    \cup { [pages |-> << [annots |-> <<a>>], [annots |-> <<b>>] >>] :
              a \in FewObjects, b \in FewObjects }

\* include_types as a caller may write it; the first is the default
IncludeStrings ==
    { T_al \o <<",">> \o T_st, <<>>, <<" ", ",", " ">>, <<",">>, <<"a", "l">>,
      <<" ">> \o T_st \o <<" ", ",", ",">> \o T_la, <<"/">>, <<"x">> }

ObjectRanges == { <<"1">>, <<"2">>, <<"3">>, <<"2", "-", "1">>, <<"x">> }

BackendOps == {"backend.extract_annotations", "extract_annotations", "read_pdf_text"}

CallAnnotations(op, doc, page_range, is_none, include, drop_empty, fault) ==
    LET Done(r) ==
            /\ an' = [op |-> op, res |-> r.res, doc |-> doc,
                      page_range |-> IF is_none THEN NoneSpec ELSE page_range,
                      include |-> include, types |-> ParseTypes(include),
                      drop_empty |-> drop_empty, fault |-> fault, items |-> r.items,
                      answer |-> r.answer]
            /\ handles' = r.open
        Backend(r) == [res |-> r.res, items |-> r.items, open |-> r.open, answer |-> "none"]
    IN /\ CASE op = "backend.extract_annotations" ->
                 Done(Backend(extract_annotations(doc, page_range, is_none, ParseTypes(include),
                                                  drop_empty, fault, handles)))
            [] op = "extract_annotations" ->
                 Done(tool_extract_annotations(doc, page_range, is_none, include, drop_empty,
                                               fault, handles))
            [] op = "read_pdf_text" ->
                 Done(read_pdf_text(doc, page_range, is_none, fault, handles))
       /\ UNCHANGED <<fs, locked, phase, SEARCH_DIRECTORIES, MAX_FILE_SIZE, pc, last, prev,
                      pr, hl, tx, tools_MAX_FILE_SIZE, mn>>

\* the backend or the tool extract_annotations reads the pages
Annotations ==
    Idle /\ \E op \in {"backend.extract_annotations", "extract_annotations"},
                doc \in ObjectDocs, r \in ObjectRanges \cup {NoneSpec},
                include \in IncludeStrings, d \in BOOLEAN :
                CallAnnotations(op, doc, r, r = NoneSpec, include, d, "none")

\* read_pdf_text reads the pages
ReadText ==
    Idle /\ \E doc \in ObjectDocs, r \in ObjectRanges \cup {NoneSpec} :
                CallAnnotations("read_pdf_text", doc, r, r = NoneSpec, <<>>, FALSE, "none")

\* a library fails before the pages are reached
AnnotationsFault ==
    Idle /\ \E op \in BackendOps, doc \in ObjectDocs, fault \in Faults \ {"none"} :
                /\ op = "read_pdf_text" => fault = "pdfplumber.open"
                /\ op # "read_pdf_text" => fault # "pdfplumber.open"
                /\ CallAnnotations(op, doc, NoneSpec, TRUE, <<>>, TRUE, fault)

\* the tool extract_highlights_with_context reads the pages, or a library fails
ToolHighlights ==
    Idle /\ \E doc \in FewDocs, r \in PageRanges, d \in BOOLEAN, p \in PrimaryOutcomes,
                fault \in Faults :
                LET Done(t) ==
                        /\ an' = [op |-> "extract_highlights_with_context", res |-> t.res,
                                  doc |-> doc, page_range |-> r, include |-> <<>>,
                                  types |-> {}, drop_empty |-> d, fault |-> fault,
                                  items |-> t.items, answer |-> t.answer]
                        /\ handles' = t.open
                IN /\ Done(tool_extract_highlights(doc, r, FALSE, d, Same(p), fault, handles))
                   /\ UNCHANGED <<fs, locked, phase, SEARCH_DIRECTORIES, MAX_FILE_SIZE, pc,
                                  last, prev, pr, hl, tx, tools_MAX_FILE_SIZE, mn>>

\* the backend extract_highlights_with_context fails before the pages
HighlightFault ==
    Idle /\ \E doc \in FewDocs, fault \in Faults \ {"none"} :
                CallBackendHighlights(doc, <<>>, TRUE, TRUE, Same("empty"), fault)

\* the caller takes the answer or the exception; the next call may start
ReturnBackend ==
    /\ an # NoAnnotations
    /\ an' = NoAnnotations
    /\ UNCHANGED <<fs, locked, phase, SEARCH_DIRECTORIES, MAX_FILE_SIZE, pc, last, prev, pr,
                   hl, tx, handles, tools_MAX_FILE_SIZE, mn>>

InitBackends == PathInit /\ pr = NoParse /\ hl = NoHighlights /\ tx = NoTextCall /\ NoBackend

NextBackends ==
    \/ Annotations
    \/ ReadText
    \/ AnnotationsFault
    \/ ToolHighlights
    \/ HighlightDoc
    \/ HighlightLines
    \/ HighlightFault
    \/ ReturnHighlights
    \/ ReturnBackend

SpecBackends == InitBackends /\ [][NextBackends]_vars

(***************************************************************************)
(* Claims about the backends and the tools.                                *)
(***************************************************************************)
AnnotationOps == {"backend.extract_annotations", "extract_annotations"}

\* extract_annotations has returned its entries
AnnotationsReturned == an.op \in AnnotationOps /\ an.res = "ok"

\* the annotation objects of the pages the call selects, page by page
RECURSIVE ObjectsOf(_, _)
ObjectsOf(doc, idxs) ==
    IF idxs = <<>> THEN <<>> ELSE doc.pages[Head(idxs) + 1].annots \o ObjectsOf(doc, Tail(idxs))

SelectedPages == parse_page_range(Len(an.doc.pages), an.page_range, an.page_range = NoneSpec).pages

\* the objects that the include set lets through
Passing ==
    SelectSeq(ObjectsOf(an.doc, SelectedPages),
              LAMBDA o : an.types = {} \/ Lower(LStrip(o.subtype, "/")) \in an.types)

\* C16: with drop_empty true extract_annotations returns no entry whose
\* content and author are both empty and extract_highlights_with_context
\* none whose highlighted_text and note are both empty; with drop_empty
\* false every annotation that passes the type filter, and every highlight
\* that has a box, is returned.
C16_DropEmpty ==
    /\ AnnotationsReturned =>
          IF an.drop_empty
          THEN \A k \in 1..Len(an.items) :
                   ~(an.items[k].content = "" /\ an.items[k].author = "")
          ELSE Len(an.items) = Len(Passing)
    /\ hl.res = "ok" =>
          IF hl.drop_empty
          THEN \A k \in 1..Len(hl.out) :
                   ~(hl.out[k].highlighted_text = <<>> /\ hl.out[k].note = "")
          ELSE Len(hl.out) = Len(hl.unions)

\* C16 witness: of two annotations of an included type the one without
\* content and author was dropped and the other one returned.
C16_Witness ==
    /\ AnnotationsReturned
    /\ an.drop_empty
    /\ Len(Passing) = 2
    /\ Passing[1].Contents = "" /\ Passing[1].RC = "" /\ Passing[1].Popup = ""
    /\ Passing[1].T = "" /\ Passing[1].Title = ""
    /\ Len(an.items) = 1
    /\ an.items[1].content = "rc"

\* C17: every entry returned by extract_annotations has a type that, lower
\* case and without its leading slash, is in the set parsed from the
\* include_types of the caller, whatever string that is.
C17_SubtypeIncluded ==
    AnnotationsReturned =>
        \A k \in 1..Len(an.items) : Lower(LStrip(an.items[k].type, "/")) \in an.types

ToolOps == {"extract_annotations", "extract_highlights_with_context", "read_pdf_text"}

\* C18: a tool whose page range is malformed or out of bounds, or whose
\* backend cannot open or parse the file, answers with a message and does
\* not raise.
C18_ToolsAnswer ==
    (an.op \in ToolOps /\ an.res \notin {"none", "ok"}) => an.answer = "message"

\* C19: no file handle is open once extract_annotations or
\* extract_highlights_with_context has returned or raised, on any path:
\* entries returned, pages without annotations, an invalid page range, a
\* failure of a library, an exception in the middle of a page.
C19_HandlesClosed ==
    (an.res # "none" \/ hl.res # "none" \/ Idle) => handles = {}

\* C19 witness: extract_highlights_with_context raised IndexError in the
\* middle of a page, with both handles open at that point, and none is open.
C19_Witness ==
    /\ hl.res = "IndexError"
    /\ hl.boxes # <<>>
    /\ handles = {}

(***************************************************************************)
(* SpecBbox: _text_from_words_grouped and extract_text_from_bbox are       *)
(* called on bounded pages.  A word is ten units wide and five high, as    *)
(* Hello [0,0,10,5] and World [12,0,22,5]; the tops make lines that chain  *)
(* (0, 3, 6) and a line apart (10).                                        *)
(***************************************************************************)
MaxWords == 3        \* words on a page

Word(text, x0, top) ==
    [text |-> text, x0 |-> x0, x1 |-> x0 + 10, top |-> top, bottom |-> top + 5]

WordTops == {0, 3, 6, 10}

TextWords ==
    {Word("Hello", 0, t) : t \in WordTops} \cup {Word("World", 12, t) : t \in WordTops}

\* what pl_page.extract_words() returns, in any order
WordLists == UNION {[1..n -> TextWords] : n \in 0..MaxWords}

BoxXs == {0, 10, 12, 22}
BoxYs == {0, 5, 15}

TextBoxes ==
    {<<x0, top, x1, bottom>> : x0 \in BoxXs, top \in BoxYs, x1 \in BoxXs, bottom \in BoxYs}
    \ {b \in BoxXs \X BoxYs \X BoxXs \X BoxYs : b[1] >= b[3] \/ b[2] >= b[4]}

\* the box extract_text_from_bbox searches: the caller's, padded
Padded(bbox) == <<Max(bbox[1] - PAD, 0), Max(bbox[2] - PAD, 0), bbox[3] + PAD, bbox[4] + PAD>>

\* _text_from_words_grouped(bbox, words) is called directly
GroupWords ==
    Idle /\ \E words \in WordLists, bbox \in TextBoxes :
        /\ tx' = [res |-> "ok", op |-> "_text_from_words_grouped", words |-> words,
                  bbox |-> bbox, primary |-> "none",
                  lines |-> GroupLines(SortWords(_words_in_bbox(bbox, words), <<>>), <<>>),
                  out |-> _text_from_words_grouped(bbox, words)]
        /\ UNCHANGED <<fs, locked, phase, SEARCH_DIRECTORIES, MAX_FILE_SIZE, pc, last, prev,
                       pr, hl, an, handles, tools_MAX_FILE_SIZE, mn>>

CallExtractText(words, bbox, primary) ==
    LET Done(r) ==
            tx' = [res |-> IF r = RaisedText THEN "raise" ELSE "ok",
                   op |-> "extract_text_from_bbox", words |-> words, bbox |-> bbox,
                   primary |-> primary, lines |-> <<>>, out |-> r]
    IN /\ Done(extract_text_from_bbox([words |-> words], bbox, primary))
       /\ UNCHANGED <<fs, locked, phase, SEARCH_DIRECTORIES, MAX_FILE_SIZE, pc, last, prev,
                      pr, hl, an, handles, tools_MAX_FILE_SIZE, mn>>

\* extract_text_from_bbox where the crop raises or yields no text
ExtractFallback ==
    Idle /\ \E words \in WordLists, bbox \in TextBoxes, primary \in {"raise", "empty"} :
        CallExtractText(words, bbox, primary)

\* extract_text_from_bbox where the crop yields text, or blank lines only;
\* the crop has text only where a word of the page reaches into it
ExtractPrimary ==
    Idle /\ \E words \in WordLists, bbox \in TextBoxes, primary \in {"text", "blank"} :
        /\ primary = "text" => _words_in_bbox(Padded(bbox), words) # <<>>
        /\ CallExtractText(words, bbox, primary)

\* the caller takes the text; the next call may start
ReturnText ==
    /\ tx # NoTextCall
    /\ tx' = NoTextCall
    /\ UNCHANGED <<fs, locked, phase, SEARCH_DIRECTORIES, MAX_FILE_SIZE, pc, last, prev,
                   pr, hl, an, handles, tools_MAX_FILE_SIZE, mn>>

InitBbox == PathInit /\ pr = NoParse /\ hl = NoHighlights /\ tx = NoTextCall /\ NoBackend

NextBbox ==
    \/ GroupWords
    \/ ExtractFallback
    \/ ExtractPrimary
    \/ ReturnText

SpecBbox == InitBbox /\ [][NextBbox]_vars

(***************************************************************************)
(* Claims about the text of a box.                                         *)
(***************************************************************************)
\* the word and the box share a region of positive area
OpenOverlap(bbox, w) ==
    /\ Max(bbox[1], w.x0) < Min(bbox[3], w.x1)
    /\ Max(bbox[2], w.top) < Min(bbox[4], w.bottom)

Count(seq, t) == Cardinality({i \in 1..Len(seq) : seq[i] = t})

FellBack == tx.op = "extract_text_from_bbox" /\ tx.primary \in {"raise", "empty"}

\* C12: when extract_text_from_bbox uses its fallback strategy, the result
\* holds the text of a word exactly as often as the page has that word with
\* an open overlap with the box the caller passed in: a word that only
\* touches an edge of that box, or lies outside it, is not in the result.
C12_FallbackOpenOverlap ==
    FellBack =>
        \A t \in {"Hello", "World"} :
            Count(tx.out, t)
              = Cardinality({i \in 1..Len(tx.words) :
                               tx.words[i].text = t /\ OpenOverlap(tx.bbox, tx.words[i])})

\* the words of the call that the box of the call selects
Selected == SelectSeq(tx.words, LAMBDA w : OpenOverlap(tx.bbox, w))

Before(a, b) == a.top < b.top \/ (a.top = b.top /\ a.x0 < b.x0)

SameKey(a, b) == a.top = b.top /\ a.x0 = b.x0

\* the place of the i-th selected word when sorting on (top, x0)
Rank(sel, i) ==
    1 + Cardinality({j \in 1..Len(sel) : Before(sel[j], sel[i])})
      + Cardinality({j \in 1..(i - 1) : SameKey(sel[j], sel[i])})

\* the words of all lines, in the order of the lines
RECURSIVE Flat(_)
Flat(lines) == IF lines = <<>> THEN <<>> ELSE Head(lines) \o Flat(Tail(lines))

\* C13: _text_from_words_grouped returns the texts of exactly the selected
\* words, each once, in the order of sorting on (top, x0); a word joins the
\* line of the word before it exactly when their tops differ by at most 3,
\* and a line is never empty; for Hello [0,0,10,5], World [12,0,22,5] and
\* the box [0,0,22,5] the result is "Hello World".
C13_GroupedText ==
    tx.op = "_text_from_words_grouped" =>
        /\ Len(tx.out) = IF Selected = <<>> THEN 0 ELSE 2 * Len(Selected) - 1
        /\ \A i \in 1..Len(Selected) : tx.out[2 * Rank(Selected, i) - 1] = Selected[i].text
        /\ \A i \in 1..(Len(Selected) - 1) : tx.out[2 * i] = BLANK
        /\ \A l \in 1..Len(tx.lines) : tx.lines[l] # <<>>
        /\ Len(Flat(tx.lines)) = Len(Selected)
        /\ \A i \in 1..Len(Selected) : Flat(tx.lines)[Rank(Selected, i)] = Selected[i]
        /\ \A l \in 1..Len(tx.lines) : \A k \in 1..(Len(tx.lines[l]) - 1) :
              Abs(tx.lines[l][k + 1].top - tx.lines[l][k].top) <= LINE_TOL
        /\ \A l \in 1..(Len(tx.lines) - 1) :
              Abs(tx.lines[l + 1][1].top - tx.lines[l][Len(tx.lines[l])].top) > LINE_TOL
        /\ (/\ tx.words \in {<<Word("Hello", 0, 0), Word("World", 12, 0)>>,
                              <<Word("World", 12, 0), Word("Hello", 0, 0)>>}
            /\ tx.bbox = <<0, 0, 22, 5>>) => tx.out = <<"Hello", BLANK, "World">>

\* C13 witness: the page lists World [12,0,22,5] before Hello [0,0,10,5],
\* the box is [0,0,22,5] and the result is "Hello World".
C13_Witness ==
    /\ tx.op = "_text_from_words_grouped"
    /\ tx.words = <<Word("World", 12, 0), Word("Hello", 0, 0)>>
    /\ tx.bbox = <<0, 0, 22, 5>>
    /\ tx.out = <<"Hello", BLANK, "World">>
    /\ Len(tx.lines) = 1

C29_LineLeftToRight ==
    tx.op = "_text_from_words_grouped" =>
        \A l \in 1..Len(tx.lines) : \A k \in 1..(Len(tx.lines[l]) - 1) :
            tx.lines[l][k].x0 <= tx.lines[l][k + 1].x0

\* C29 for lines whose words have one top
C29_EqualTopsLeftToRight ==
    tx.op = "_text_from_words_grouped" =>
        \A l \in 1..Len(tx.lines) : \A k \in 1..(Len(tx.lines[l]) - 1) :
            tx.lines[l][k].top = tx.lines[l][k + 1].top =>
                tx.lines[l][k].x0 <= tx.lines[l][k + 1].x0

\* World, three units higher on the page than Hello to its left, comes first
C29_RightWordFirst ==
    /\ tx.op = "_text_from_words_grouped"
    /\ tx.words = <<Word("Hello", 0, 3), Word("World", 12, 0)>>
    /\ tx.bbox = <<0, 0, 22, 15>>
    /\ Len(tx.lines) = 1
    /\ tx.out = <<"World", BLANK, "Hello">>

(***************************************************************************)
(* main.py: get_text_within_bbox and get_unified_annotations.  A document  *)
(* is the pages both libraries read; compared lists, for every call of     *)
(* get_text_within_bbox, the box handed to it with the /Rect and the page  *)
(* height it belongs to.                                                   *)
(***************************************************************************)
\* list.sort(key=lambda w: w['x0']): stable
RECURSIVE InsertByX0(_, _)
InsertByX0(sorted, w) ==
    IF sorted = <<>> THEN <<w>>
    ELSE IF sorted[1].x0 <= w.x0 THEN <<sorted[1]>> \o InsertByX0(Tail(sorted), w)
    ELSE <<w>> \o sorted

RECURSIVE SortByX0(_, _)
SortByX0(ws, acc) ==
    IF ws = <<>> THEN acc ELSE SortByX0(Tail(ws), InsertByX0(acc, Head(ws)))

\* the words joined by blanks
WordsText(ws) == JoinWith([i \in 1..Len(ws) |-> <<ws[i].text>>], BLANK)

\* get_text_within_bbox(bbox, words) for a bbox of four numbers; the centre
\* (top + bottom) / 2 of a word is compared without the division
get_text_within_bbox(bbox, words) ==
    WordsText(SortByX0(SelectSeq(words,
        LAMBDA word : /\ ~(word.x1 < bbox[1] \/ word.x0 > bbox[3])
                      /\ word.top + word.bottom >= 2 * bbox[2]
                      /\ word.top + word.bottom <= 2 * bbox[4]), <<>>))

\* str(obj.get("/Subtype", "Unknown")).strip('/')
SubtypeStrip(subtype) ==
    CASE subtype = "/Highlight" -> "Highlight"
      [] subtype = "/Text" -> "Text"
      [] OTHER -> subtype

\* the first pass: one record per annotation of every page, in page order
RECURSIVE BaseAnnotations(_, _, _, _)
BaseAnnotations(doc, page_num, k, acc) ==
    IF page_num > Len(doc.pages) THEN acc
    ELSE IF k > Len(doc.pages[page_num].annots) THEN BaseAnnotations(doc, page_num + 1, 1, acc)
    ELSE BaseAnnotations(doc, page_num, k + 1,
             Append(acc, [page |-> page_num,
                          type |-> SubtypeStrip(doc.pages[page_num].annots[k].subtype),
                          note |-> doc.pages[page_num].annots[k].note,
                          author |-> doc.pages[page_num].annots[k].author,
                          position |-> doc.pages[page_num].annots[k].rect,
                          highlighted_text |-> <<>>]))

\* the second pass over base_annotations; a position that is not four
\* numbers makes the unpacking in get_text_within_bbox raise ValueError
RECURSIVE Enhance(_, _, _, _)
Enhance(doc, base, k, acc) ==
    IF k > Len(base) THEN acc
    ELSE IF base[k].page - 1 >= Len(doc.pages) THEN Enhance(doc, base, k + 1, acc)
    ELSE IF Len(base[k].position) # 4 THEN [acc EXCEPT !.res = "ValueError"]
    ELSE LET page == doc.pages[base[k].page]
             highlighted_text == get_text_within_bbox(base[k].position, page.words)
             seen == [acc EXCEPT !.compared =
                         Append(@, [bbox |-> base[k].position,
                                    rect |-> doc.pages[base[k].page].annots
                                                [Len(SelectSeq(SubSeq(base, 1, k),
                                                     LAMBDA b : b.page = base[k].page))].rect,
                                    page_height |-> page.height])]
         IN IF highlighted_text # <<>> \/ base[k].note # ""
            THEN Enhance(doc, base, k + 1,
                         [seen EXCEPT !.out = Append(@, [base[k] EXCEPT
                                                  !.highlighted_text = highlighted_text])])
            ELSE Enhance(doc, base, k + 1, seen)

MainFaults == {"none", "open", "PdfReader", "pdfplumber.open"}

\* what the second pass answers: unified_annotations, or base_annotations
\* when anything in it raised
Enhanced(base, r) ==
    [res |-> "ok", out |-> IF r.res = "ok" THEN r.out ELSE base, compared |-> r.compared]

\* get_unified_annotations(pdf_path) of main.py; fault is the step at which
\* a library fails
get_unified_annotations(doc, fault) ==
    IF fault \in {"open", "PdfReader"} THEN [res |-> "ok", out |-> <<>>, compared |-> <<>>]
    ELSE IF BaseAnnotations(doc, 1, 1, <<>>) = <<>>
    THEN [res |-> "ok", out |-> <<>>, compared |-> <<>>]
    ELSE IF fault = "pdfplumber.open"
    THEN [res |-> "ok", out |-> BaseAnnotations(doc, 1, 1, <<>>), compared |-> <<>>]
    ELSE Enhanced(BaseAnnotations(doc, 1, 1, <<>>),
                  Enhance(doc, BaseAnnotations(doc, 1, 1, <<>>), 1,
                          [res |-> "ok", out |-> <<>>, compared |-> <<>>]))

(***************************************************************************)
(* main.py: extract_pdf_text.  A page list of total_pages pages is read    *)
(* as Python reads a list: an index from -total_pages to -1 counts from    *)
(* the end, any other index outside 0..total_pages-1 raises IndexError.    *)
(***************************************************************************)
\* the pages_to_extract of extract_pdf_text
pages_to_extract(total_pages, page_range, is_none) ==
    IF is_none THEN Pages(Range(0, total_pages))
    ELSE IF Lower(page_range) = W_first THEN Pages(<<0>>)
    ELSE IF Lower(page_range) = W_last THEN Pages(<<total_pages - 1>>)
    ELSE IF FindChar(page_range, "-", 1) # 0
    THEN LET parts == SplitOn(page_range, "-")
         IN IF Len(parts) # 2 THEN ValueError
            ELSE IF ~int(parts[1]).ok \/ ~int(parts[2]).ok THEN ValueError
            ELSE Pages(Range(int(parts[1]).val - 1, Min(int(parts[2]).val, total_pages)))
    ELSE IF ~int(page_range).ok THEN ValueError
    ELSE IF 1 <= int(page_range).val /\ int(page_range).val <= total_pages
    THEN Pages(<<int(page_range).val - 1>>)
    ELSE ValueError

\* the loop over pages_to_extract: used are the indices handed to pdf.pages,
\* out the page_number of every extracted page
RECURSIVE ReadPages(_, _, _, _)
ReadPages(total_pages, idxs, k, acc) ==
    IF k > Len(idxs) THEN acc
    ELSE IF idxs[k] >= total_pages \/ idxs[k] < 0 - total_pages
    THEN [acc EXCEPT !.res = "IndexError", !.used = Append(@, idxs[k])]
    ELSE ReadPages(total_pages, idxs, k + 1,
                   [acc EXCEPT !.used = Append(@, idxs[k]), !.out = Append(@, idxs[k] + 1)])

extract_pdf_text(total_pages, page_range, is_none) ==
    IF pages_to_extract(total_pages, page_range, is_none).res # "ok"
    THEN [res |-> "ValueError", used |-> <<>>, out |-> <<>>]
    ELSE ReadPages(total_pages, pages_to_extract(total_pages, page_range, is_none).pages, 1,
                   [res |-> "ok", used |-> <<>>, out |-> <<>>])

(***************************************************************************)
(* SpecMain: the two functions of main.py and the highlight backend are    *)
(* called with documents, page counts and page ranges of bounded sets.     *)
(***************************************************************************)
MainIdle == Idle /\ mn = NoMain

MainDone(op, r, doc, total, page_range) ==
    /\ mn' = [op |-> op, res |-> r.res, out |-> r.out, compared |-> r.compared,
              used |-> r.used, total |-> total, doc |-> doc, page_range |-> page_range]
    /\ UNCHANGED <<fs, locked, phase, SEARCH_DIRECTORIES, MAX_FILE_SIZE, pc, last, prev,
                   pr, hl, tx, an, handles, tools_MAX_FILE_SIZE>>

Unified(r) == [res |-> r.res, out |-> r.out, compared |-> r.compared, used |-> <<>>]

CallUnified(doc, fault) ==
    MainDone("get_unified_annotations", Unified(get_unified_annotations(doc, fault)), doc,
             Len(doc.pages), <<>>)

\* one annotation with a /Rect in any orientation
UnifiedRect ==
    MainIdle /\ \E rect \in Corners, h \in PageHeights, note \in {"", "n"} :
                    CallUnified(OnePage(h, Highlight(<<>>, rect, note)), "none")

\* documents with several annotations and pages; a library may fail
UnifiedDoc ==
    MainIdle /\ \E doc \in FewDocs, fault \in MainFaults : CallUnified(doc, fault)

Extracted(r) == [res |-> r.res, out |-> r.out, compared |-> <<>>, used |-> r.used]

CallExtractPdfText(total, shape, s, e, raw, style) ==
    MainDone("extract_pdf_text",
             Extracted(extract_pdf_text(total, SpecText(shape, s, e, raw, style),
                                        shape = "None")),
             [pages |-> <<>>], total, SpecText(shape, s, e, raw, style))

MainTotals == 0..MaxTotal

ExtractNone ==
    MainIdle /\ \E t \in MainTotals : CallExtractPdfText(t, "None", 0, 0, <<>>, "plain")

ExtractKeyword ==
    MainIdle /\ \E t \in MainTotals, w \in {"first", "last"}, y \in Styles :
                    CallExtractPdfText(t, w, 0, 0, <<>>, y)

ExtractSingle ==
    MainIdle /\ \E t \in MainTotals, n \in PageNumbers \cap Nat, y \in Styles :
                    CallExtractPdfText(t, "single", n, 0, <<>>, y)

ExtractRange ==
    MainIdle /\ \E t \in MainTotals, s \in PageNumbers \cup {Missing},
                   e \in PageNumbers \cup {Missing}, y \in Styles :
                    CallExtractPdfText(t, "range", s, e, <<>>, y)

ExtractMalformed ==
    MainIdle /\ \E t \in MainTotals, raw \in Malformed, y \in Styles :
                    CallExtractPdfText(t, "raw", 0, 0, raw, y)

\* the caller takes the answer of main.py; the next call may start
ReturnMain ==
    /\ mn # NoMain
    /\ mn' = NoMain
    /\ UNCHANGED <<fs, locked, phase, SEARCH_DIRECTORIES, MAX_FILE_SIZE, pc, last, prev,
                   pr, hl, tx, an, handles, tools_MAX_FILE_SIZE>>

BackendQuad == mn = NoMain /\ HighlightQuad

BackendRect == mn = NoMain /\ HighlightRect

InitMain == PathInit /\ IdleRest

NextMain ==
    \/ UnifiedRect
    \/ UnifiedDoc
    \/ ExtractNone
    \/ ExtractKeyword
    \/ ExtractSingle
    \/ ExtractRange
    \/ ExtractMalformed
    \/ ReturnMain
    \/ BackendQuad
    \/ BackendRect
    \/ ReturnHighlights

SpecMain == InitMain /\ [][NextMain]_vars

(***************************************************************************)
(* Claims about main.py.                                                   *)
(***************************************************************************)
\* box b is the /Rect or the quad with corners (xs, ys) of a page of height
\* h, its y coordinates converted with h - y
Converted(b, ys, h) ==
    /\ b[2] = h - MaxOf(ys)
    /\ b[4] = h - MinOf(ys)

\* the y coordinates of the j-th box of a highlight
YsOf(obj, j) ==
    IF Len(obj.quads) >= 8 THEN {obj.quads[8 * (j - 1) + k] : k \in {2, 4, 6, 8}}
    ELSE {obj.rect[2], obj.rect[4]}

\* C26: every coordinate taken from the structural reader (a /Rect or a
\* quad point) is converted with page_height - y before it is compared with
\* the words of the layout backend, in extract_highlights_with_context and
\* in get_unified_annotations of main.py.
C26_CoordinatesConverted ==
    /\ (hl # NoHighlights /\ Len(hl.doc.pages) = 1 /\ Len(hl.doc.pages[1].annots) = 1) =>
          \A i \in 1..Len(hl.boxes) : \A j \in 1..Len(hl.boxes[i]) :
              Converted(hl.boxes[i][j], YsOf(hl.doc.pages[1].annots[1], j),
                        hl.doc.pages[1].height)
    /\ mn.op = "get_unified_annotations" =>
          \A k \in 1..Len(mn.compared) :
              Converted(mn.compared[k].bbox,
                        {mn.compared[k].rect[2], mn.compared[k].rect[4]},
                        mn.compared[k].page_height)

\* C26 for the highlight backend alone
C26_BackendConverted ==
    (hl # NoHighlights /\ Len(hl.doc.pages) = 1 /\ Len(hl.doc.pages[1].annots) = 1) =>
        \A i \in 1..Len(hl.boxes) : \A j \in 1..Len(hl.boxes[i]) :
            Converted(hl.boxes[i][j], YsOf(hl.doc.pages[1].annots[1], j),
                      hl.doc.pages[1].height)

\* a highlight of the backend was converted, its box differing from the raw one
C26_BackendReached ==
    /\ hl # NoHighlights
    /\ Len(hl.boxes) = 1
    /\ hl.doc.pages[1].height = 2
    /\ hl.doc.pages[1].annots[1].rect = <<0, 0, 1, 1>>
    /\ hl.boxes[1][1] = <<0, 1, 1, 2>>

\* C30: extract_pdf_text either fails with an invalid-range error or hands
\* pdf.pages only indices of 0..total_pages-1; no page is read through a
\* negative index.
C30_IndicesInRange ==
    mn.op = "extract_pdf_text" =>
        \/ mn.res = "ValueError"
        \/ \A k \in 1..Len(mn.used) : 0 <= mn.used[k] /\ mn.used[k] < mn.total

\* the part of C30 that holds: no index beyond the last page is read
C30_NoPageBeyond ==
    mn.op = "extract_pdf_text" =>
        \A k \in 1..Len(mn.out) : mn.out[k] <= mn.total

\* the words of C30: "0-3" reads a page through the index -1
C30_NegativeRead ==
    /\ mn.op = "extract_pdf_text"
    /\ mn.page_range = <<"0", "-", "3">>
    /\ mn.total = 3
    /\ mn.res = "ok"
    /\ mn.used = <<0 - 1, 0, 1, 2>>

=============================================================================
